---- MODULE Spec2Model ----
(***************************************************************************)
(* Query resolution and fallback search of booth_searcher                  *)
(* (core/search_service.py, utils/query_normalization.py,                  *)
(* data/avatar_aliases.py, models/search_params.py,                        *)
(* models/search_result.py), with its result cache (cache/result_cache.py), *)
(* its image cache (cache/image_cache.py) and the workers of its window    *)
(* (gui/workers/search_worker.py, gui/workers/image_pool.py).              *)
(*                                                                         *)
(* A query is a sequence of characters.  A character is a one-element      *)
(* name: "a", "b" are plain letters, " " is the ASCII space, "," is the    *)
(* comma, "\"" the straight double quote, "fw_a" the full-width letter     *)
(* U+FF41 (NFKC folds it to "a"), "fw_sp" the ideographic space U+3000,    *)
(* "mid_dot" the katakana middle dot U+30FB, "l_corner"/"r_corner" the     *)
(* Japanese corner quotes, "nl" the newline, "id_comma" the ideographic    *)
(* comma U+3001, "v_comma" its vertical presentation form U+FE11 (NFKC    *)
(* folds it to "id_comma"), "fw_comma" the full-width comma U+FF0C, "A"    *)
(* the capital of "a", ":" the colon, "x" one more letter, "#" the mark of  *)
(* a hashed key.                                                           *)
(***************************************************************************)
EXTENDS Integers, Sequences, FiniteSets, TLC

---------------------------------------------------------------------------
(* Bounds of the model                                                     *)

MaxLen == 2            \* raw queries of every length up to MaxLen
MaxItems == 2          \* items on a result page
MaxTotal == 1          \* total_count reported by the provider
MaxMinResults == 2     \* min_results argument
MaxAttemptsArg == 3    \* max_attempts argument
MaxAliasEntries == 2   \* entries of an alias dataset
MaxPagesArg == 3       \* max_pages argument
MaxTotalPages == 3     \* total_pages of a result page
MaxClock == 3          \* ticks of the clock over the result cache
MaxCacheOps == 3       \* puts and gets on the result cache

---------------------------------------------------------------------------
(* utils/query_normalization.py                                            *)

Whitespace == {" ", "nl", "fw_sp"}

MultiSeparators == {",", ";", "/", "|", "nl"}

\* unicodedata.normalize("NFKC", ch) on the characters of the model
NFKC(ch) ==
  CASE ch = "fw_a" -> "a"
    [] ch = "fw_sp" -> " "
    [] ch = "fw_comma" -> ","
    [] ch = "v_comma" -> "id_comma"
    [] OTHER -> ch

\* _PUNCTUATION_MAP.get(ch, ch)
_PUNCTUATION_MAP(ch) ==
  CASE ch = "mid_dot" -> " "
    [] ch = "id_comma" -> ","
    [] ch = "fw_comma" -> ","
    [] ch = "l_corner" -> "\""
    [] ch = "r_corner" -> "\""
    [] OTHER -> ch

RECURSIVE MapChars(_, _)
MapChars(text, which) ==
  IF text = <<>> THEN <<>>
  ELSE <<IF which = "nfkc" THEN NFKC(Head(text)) ELSE _PUNCTUATION_MAP(Head(text))>>
       \o MapChars(Tail(text), which)

\* _WHITESPACE_RE.sub(repl, text): every maximal run of whitespace becomes repl
RECURSIVE WhitespaceSub(_, _, _)
WhitespaceSub(text, repl, inRun) ==
  IF text = <<>> THEN <<>>
  ELSE IF Head(text) \in Whitespace
       THEN (IF inRun THEN <<>> ELSE repl) \o WhitespaceSub(Tail(text), repl, TRUE)
       ELSE <<Head(text)>> \o WhitespaceSub(Tail(text), repl, FALSE)

RECURSIVE LStrip(_)
LStrip(text) ==
  IF text = <<>> THEN <<>>
  ELSE IF Head(text) \in Whitespace THEN LStrip(Tail(text)) ELSE text

RECURSIVE RStrip(_)
RStrip(text) ==
  IF text = <<>> THEN <<>>
  ELSE IF text[Len(text)] \in Whitespace
       THEN RStrip(SubSeq(text, 1, Len(text) - 1))
       ELSE text

\* str.strip()
Strip(text) == RStrip(LStrip(text))

\* variant: the punctuation map is applied before the NFKC folding
normalize_query_map_first(text) ==
  LET nfkc == MapChars(MapChars(text, "punct"), "nfkc")
  IN IF nfkc = <<>> THEN <<>>
     ELSE Strip(WhitespaceSub(nfkc, <<" ">>, FALSE))

normalize_query(text) ==
  LET nfkc == MapChars(text, "nfkc")
  IN IF nfkc = <<>> THEN <<>>
     ELSE Strip(WhitespaceSub(MapChars(nfkc, "punct"), <<" ">>, FALSE))

\* _MULTI_SEPARATOR_RE.split(text): the pieces between maximal separator runs
\* (a leading or trailing run leaves an empty piece)
RECURSIVE ReSplit(_, _, _)
ReSplit(text, cur, inRun) ==
  IF text = <<>> THEN <<cur>>
  ELSE IF Head(text) \in MultiSeparators
       THEN (IF inRun THEN <<>> ELSE <<cur>>) \o ReSplit(Tail(text), <<>>, TRUE)
       ELSE ReSplit(Tail(text), Append(cur, Head(text)), FALSE)

RECURSIVE StripNonEmpty(_)
StripNonEmpty(parts) ==
  IF parts = <<>> THEN <<>>
  ELSE (IF Head(parts) # <<>> /\ Strip(Head(parts)) # <<>>
        THEN <<Strip(Head(parts))>> ELSE <<>>)
       \o StripNonEmpty(Tail(parts))

split_multi_query(text) == StripNonEmpty(ReSplit(text, <<>>, FALSE))

remove_spaces(text) == WhitespaceSub(text, <<>>, FALSE)

---------------------------------------------------------------------------
(* data/avatar_aliases.py                                                  *)

\* load_avatar_aliases(): the alias dataset, canonical name -> variants, in
\* file order.  The second entry's variant collides with a key of the first.
load_avatar_aliases ==
  << [canonical |-> <<"b", "b">>, variants |-> << <<"a">>, <<"a", " ", "b">>, <<"b", " ", "b">> >>],
     [canonical |-> <<"b">>,      variants |-> << <<"fw_a">> >>] >>

\* variant: a later registration of a key replaces the earlier one
RECURSIVE RegisterVariants_last_wins(_, _, _)
RegisterVariants_last_wins(alias_map, canonical, all_variants) ==
  IF all_variants = <<>> THEN alias_map
  ELSE LET key == normalize_query(Head(all_variants))
       IN RegisterVariants_last_wins(
            IF key = <<>> THEN alias_map
            ELSE [k \in (DOMAIN alias_map) \cup {key} |->
                    IF k = key THEN canonical ELSE alias_map[k]],
            canonical, Tail(all_variants))

\* the inner loop of build_alias_map: the first registration of a key wins
RECURSIVE RegisterVariants(_, _, _)
RegisterVariants(alias_map, canonical, all_variants) ==
  IF all_variants = <<>> THEN alias_map
  ELSE LET key == normalize_query(Head(all_variants))
       IN RegisterVariants(
            IF key = <<>> \/ key \in DOMAIN alias_map
            THEN alias_map
            ELSE alias_map @@ (key :> canonical),
            canonical, Tail(all_variants))

RECURSIVE BuildAliasEntries(_, _)
BuildAliasEntries(aliases, alias_map) ==
  IF aliases = <<>> THEN alias_map
  ELSE LET canonical == Strip(Head(aliases).canonical)
       IN BuildAliasEntries(
            Tail(aliases),
            IF canonical = <<>> THEN alias_map
            ELSE RegisterVariants(alias_map, canonical,
                                  <<canonical>> \o Head(aliases).variants))

build_alias_map == BuildAliasEntries(load_avatar_aliases, << >>)

---------------------------------------------------------------------------
(* core/search_service.py: the attempt planner                             *)

\* SearchService._alias_map, built once in __init__
_alias_map == build_alias_map

\* dict.get(key): the empty sequence stands for None
AliasGet(key) == IF key \in DOMAIN _alias_map THEN _alias_map[key] ELSE <<>>

SearchAttempt(label, query, description) ==
  [label |-> label, query |-> query, description |-> description]

\* description parts; ", ".join(parts) is modelled by the sequence of parts
DescMulti(idx, n) == [text |-> "multi_input", idx |-> idx, of |-> n]
DescText(text) == [text |-> text, idx |-> 0, of |-> 0]

Contains(text, ch) == \E k \in 1..Len(text) : text[k] = ch

\* variant: Attempt B is always the quoted query
_build_attempt_b_quotes_only(query) ==
  IF query = <<>> THEN <<>>
  ELSE <<SearchAttempt("B", <<"\"">> \o query \o <<"\"">>, <<DescText("quoted")>>)>>

_build_attempt_b(query) ==
  IF query = <<>> THEN <<>>
  ELSE LET no_space == remove_spaces(query)
           already == Head(query) = "\"" /\ query[Len(query)] = "\""
           quoted == IF already THEN query ELSE <<"\"">> \o query \o <<"\"">>
       IN IF Contains(query, " ") /\ no_space # <<>> /\ no_space # query
          THEN <<SearchAttempt("B", no_space, <<DescText("remove_spaces")>>)>>
          ELSE IF quoted # query
               THEN <<SearchAttempt("B", quoted, <<DescText("quoted")>>)>>
               ELSE <<>>

\* variant: the alias is looked up even when normalization is disabled
_build_attempt_c_unguarded(query, normalize_enabled) ==
  IF query = <<>> THEN <<>>
  ELSE LET canonical == AliasGet(normalize_query(query))
       IN IF canonical # <<>> /\ canonical # query
          THEN <<SearchAttempt("C", canonical, <<DescText("alias")>>)>>
          ELSE <<>>

_build_attempt_c(query, normalize_enabled) ==
  IF query = <<>> \/ ~normalize_enabled THEN <<>>
  ELSE LET canonical == AliasGet(normalize_query(query))
       IN IF canonical # <<>> /\ canonical # query
          THEN <<SearchAttempt("C", canonical, <<DescText("alias")>>)>>
          ELSE <<>>

\* lines 255-264: one candidate (original, normalized, applied) per usable part
RECURSIVE Candidates(_, _)
Candidates(parts, normalize_enabled) ==
  IF parts = <<>> THEN <<>>
  ELSE LET original == Strip(Head(parts))
           normalized == IF normalize_enabled THEN normalize_query(original) ELSE original
       IN (IF original = <<>> \/ normalized = <<>> THEN <<>>
           ELSE << [original |-> original, normalized |-> normalized,
                    normalization_applied |-> normalize_enabled /\ normalized # original] >>)
          \o Candidates(Tail(parts), normalize_enabled)

\* lines 271-278: keep the first candidate of every normalized form
RECURSIVE DedupCandidates(_, _)
DedupCandidates(candidates, seen) ==
  IF candidates = <<>> THEN <<>>
  ELSE IF Head(candidates).normalized \in seen
       THEN DedupCandidates(Tail(candidates), seen)
       ELSE <<Head(candidates)>>
            \o DedupCandidates(Tail(candidates), seen \cup {Head(candidates).normalized})

\* lines 305-314: further multi-input candidates while below the cap
RECURSIVE AltAttempts(_, _, _, _)
AltAttempts(deduped, idx, room, n) ==
  IF idx > Len(deduped) \/ room <= 0 THEN <<>>
  ELSE <<SearchAttempt("A", deduped[idx].normalized,
                       <<DescMulti(idx, n)>>
                       \o (IF deduped[idx].normalization_applied
                           THEN <<DescText("normalized")>> ELSE <<>>))>>
       \o AltAttempts(deduped, idx + 1, room - 1, n)

\* lines 316-323: keep the first attempt of every query
RECURSIVE DedupAttempts(_, _)
DedupAttempts(attempts, seen_queries) ==
  IF attempts = <<>> THEN <<>>
  ELSE IF Head(attempts).query \in seen_queries
       THEN DedupAttempts(Tail(attempts), seen_queries)
       ELSE <<Head(attempts)>>
            \o DedupAttempts(Tail(attempts), seen_queries \cup {Head(attempts).query})

\* variant: the plan is returned without the final truncation
SliceTo_untruncated(list, n) == list

\* Python's list[:n]: n >= 0 keeps the first n, n < 0 drops the last -n
SliceTo(list, n) ==
  LET stop == IF n >= 0 THEN (IF n < Len(list) THEN n ELSE Len(list))
              ELSE (IF Len(list) + n > 0 THEN Len(list) + n ELSE 0)
  IN SubSeq(list, 1, stop)

\* variant: the alias attempt is planned before Attempt B
PrimaryAttempts_alias_first(primary_query, primary_desc, normalize_enabled) ==
  <<SearchAttempt("A", primary_query, primary_desc)>>
  \o _build_attempt_c(primary_query, normalize_enabled)
  \o _build_attempt_b(primary_query)

\* lines 289-303: Attempt A, then B and C when they exist
PrimaryAttempts(primary_query, primary_desc, normalize_enabled) ==
  <<SearchAttempt("A", primary_query, primary_desc)>>
  \o _build_attempt_b(primary_query)
  \o _build_attempt_c(primary_query, normalize_enabled)

_build_attempts(raw_query, normalize_enabled, allow_multi, max_attempts) ==
  LET raw_trimmed == Strip(raw_query)
      split == IF allow_multi THEN split_multi_query(raw_query) ELSE <<raw_query>>
      parts == IF split = <<>> THEN <<raw_query>> ELSE split
      from_parts == Candidates(parts, normalize_enabled)
      candidates ==
        IF from_parts = <<>> /\ raw_trimmed # <<>>
        THEN LET normalized == IF normalize_enabled THEN normalize_query(raw_trimmed)
                               ELSE raw_trimmed
             IN << [original |-> raw_trimmed, normalized |-> normalized,
                    normalization_applied |-> normalize_enabled /\ normalized # raw_trimmed] >>
        ELSE from_parts
      deduped == DedupCandidates(candidates, {})
  IN IF deduped = <<>> THEN <<>>
     ELSE LET primary_query == deduped[1].normalized
              primary_desc ==
                (IF Len(deduped) > 1 THEN <<DescMulti(1, Len(deduped))>> ELSE <<>>)
                \o (IF deduped[1].normalization_applied
                    THEN <<DescText("normalized")>> ELSE <<>>)
              abc == PrimaryAttempts(primary_query, primary_desc, normalize_enabled)
              attempts ==
                IF allow_multi /\ Len(deduped) > 1 /\ Len(abc) < max_attempts
                THEN abc \o AltAttempts(deduped, 2, max_attempts - Len(abc), Len(deduped))
                ELSE abc
          IN SliceTo(DedupAttempts(attempts, {}), max_attempts)

---------------------------------------------------------------------------
(* models/search_params.py, models/search_result.py                        *)

VerifyTopN == 10       \* SearchParams.verify_top_n default

DefaultPerPage == 24   \* SearchParams.per_page default

\* SearchParams.category default (one token stands for the text)
DefaultCategory == <<"all">>

\* SortOrder values
SortOrder == {"relevance", "new", "wish_count", "price_asc", "price_desc"}

\* PriceRange(min_price, max_price, free_only); <<>> stands for None and <<v>>
\* for the integer v
PriceRange(min_price, max_price, free_only) ==
  [min_price |-> min_price, max_price |-> max_price, free_only |-> free_only]

\* SearchParams(...) followed by __post_init__
SearchParams(avatar_name, raw_query, page, normalize_enabled, allow_multi, verify_mode) ==
  [avatar_name |-> Strip(avatar_name),
   raw_query |-> IF raw_query = <<>> THEN Strip(avatar_name) ELSE raw_query,
   page |-> IF page < 1 THEN 1 ELSE page,
   normalization_enabled |-> normalize_enabled,
   allow_multi |-> allow_multi,
   verify_mode |-> verify_mode,
   verify_top_n |-> VerifyTopN,
   alias_enabled |-> TRUE,
   category |-> DefaultCategory,
   sort |-> "relevance",
   price_range |-> <<>>,
   per_page |-> DefaultPerPage]

with_avatar_name(p, avatar_name) ==
  [SearchParams(avatar_name, p.raw_query, p.page, p.normalization_enabled,
                p.allow_multi, p.verify_mode)
     EXCEPT !.category = p.category, !.sort = p.sort,
            !.price_range = p.price_range, !.per_page = p.per_page,
            !.alias_enabled = p.alias_enabled]

with_page(p, page) ==
  [SearchParams(p.avatar_name, p.raw_query, page, p.normalization_enabled,
                p.allow_multi, p.verify_mode)
     EXCEPT !.category = p.category, !.sort = p.sort,
            !.price_range = p.price_range, !.per_page = p.per_page,
            !.alias_enabled = p.alias_enabled]

\* the fields of SearchResult the orchestrator reads or writes; the other
\* provenance fields keep the dataclass defaults
SearchResult(items, total_count, current_page, query) ==
  [items |-> items, total_count |-> total_count, current_page |-> current_page,
   query |-> query, raw_query |-> <<>>, resolved_query |-> <<>>,
   attempt_label |-> "A", attempt_description |-> <<>>,
   correction_applied |-> FALSE, used_strategy |-> "original", attempts_count |-> 1,
   cached |-> FALSE, cache_age_seconds |-> <<>>]

\* SearchResult.empty(query)
SearchResultEmpty(query) ==
  [SearchResult(<<>>, 0, 1, query) EXCEPT !.resolved_query = query]

is_empty(result) == Len(result.items) = 0

---------------------------------------------------------------------------
(* core/search_service.py: scoring helpers of the fallback loop            *)

_result_score(result) ==
  IF result.total_count > 0 THEN result.total_count ELSE Len(result.items)

\* variant: a result whose score only equals min_results is retried
_should_retry_strict(result, min_results) ==
  is_empty(result) \/ _result_score(result) <= min_results

_should_retry(result, min_results) ==
  is_empty(result) \/ _result_score(result) < min_results

_apply_attempt_metadata(result, raw_query, attempt) ==
  [result EXCEPT
     !.raw_query = raw_query,
     !.resolved_query = attempt.query,
     !.query = attempt.query,
     !.attempt_label = attempt.label,
     !.attempt_description = attempt.description,
     !.correction_applied = (attempt.label # "A"
                             \/ attempt.query # Strip(raw_query)
                             \/ attempt.description # <<>>)]

\* variant: a later result of equal score replaces the best result
BetterResult_on_tie(best_result, result) ==
  IF best_result = <<>> \/ _result_score(result) >= _result_score(best_result[1])
  THEN <<result>> ELSE best_result

\* the loop's choice of best_result (line 199); <<>> stands for None
BetterResult(best_result, result) ==
  IF best_result = <<>> \/ _result_score(result) > _result_score(best_result[1])
  THEN <<result>> ELSE best_result

---------------------------------------------------------------------------
(* The environment of one search_with_fallback call                        *)

\* the characters raw queries are enumerated over ("b" and the full-width
\* "a" occur in LongQueries, "b" in the avatar name)
QueryChars == {"a", " ", ","}

RECURSIVE StringsUpTo(_)
StringsUpTo(n) ==
  IF n = 0 THEN {<<>>}
  ELSE LET shorter == StringsUpTo(n - 1)
       IN shorter \cup {Append(s, c) : s \in {t \in shorter : Len(t) = n - 1}, c \in QueryChars}

\* longer inputs of the kinds the tests use: a run of spaces inside the
\* query, an aliased query with a space, and multi-query inputs
LongQueries ==
  { <<"a", " ", " ", "b">>,
    <<"a", " ", "b">>,
    <<"a", " ", "b", ",", "b">>,
    <<"fw_a", ",", "b", ",", "a">> }

RawQueries == StringsUpTo(MaxLen) \cup LongQueries

AvatarNames == {<<"b">>}

\* the item list of a page with n items
Items(n) == [k \in 1..n |-> k]

\* what search() can hand back: a page of items with the provider's total
PageOutcomes == [n_items : 0..MaxItems, total_count : 0..MaxTotal]

VARIABLES
  params,          \* the SearchParams argument
  min_results,     \* the min_results argument
  max_attempts,    \* the max_attempts argument
  cancel_check,    \* TRUE when a cancel_check callback was passed
  pc,              \* position in search_with_fallback
  raw_query,       \* local raw_query (line 173)
  attempts,        \* the planned attempts (line 174)
  idx,             \* index of the loop's current attempt
  best_result,     \* <<>> for None, else <<result>>
  calls,           \* log of the search() calls made, in order
  polls,           \* number of cancel_check() polls made by the attempt loop
  cancelled,       \* TRUE once a poll of the attempt loop returned true
  progress,        \* the progress_callback messages emitted
  returned,        \* <<>> until the call returns, then <<result>>
  error            \* <<>>, or <<e>> once an exception e leaves the call

\* state of one search() call and of the result cache
VARIABLES
  use_cache,       \* the use_cache argument of search()
  result_cache,    \* rows of the search_cache table
  search_result,   \* search()'s local result: <<>> before the parse
  effects          \* the steps search() has performed, in order

\* a second SearchParams and the cache keys of both
VARIABLES
  params2,
  keys

\* a function applied on its own: its arguments and, once it has
\* returned, its value
VARIABLES
  fn_args,
  fn_value

\* state of one _verify_top_items call and of the service's verification memo
VARIABLES
  has_bs4,              \* FALSE when the bs4 import failed (BeautifulSoup is None)
  detail_verify_cache,  \* _detail_verify_cache: item id -> (verified, timestamp)
  clock,                \* time.time()
  verified_map,         \* the local verified_map (line 475)
  verify_idx,           \* position of the loop of line 476 in the top items
  verify_log            \* the polls and the items processed, in order

\* state of one search_all_pages call
VARIABLES
  max_pages,       \* the max_pages argument
  page_result,     \* the local result: <<>> before the first page
  current_page,    \* the local current_page (line 579)
  page_calls       \* the searches made, in order

\* SearchResult objects by reference
VARIABLES
  heap,            \* the SearchResult objects created so far, by reference
  handed           \* the results returned so far: the reference and the items then

\* a SearchWorker (gui/workers/search_worker.py) and the thread that uses it
VARIABLES
  is_running,        \* QThread.isRunning()
  cancel_requested,  \* _cancel_requested
  worker_params,     \* _params and _load_all_pages: <<>> for None
  worker_pc,         \* position of the worker thread in run()
  gui_pc,            \* position of the calling thread in search()
  signals            \* the runs started and the terminal signals emitted, in order

\* an ImageLoaderPool (gui/workers/image_pool.py)
VARIABLES
  pending_urls,    \* _pending_urls
  futures,         \* _futures: the urls with their task, in the order of the dict
  executor,        \* the tasks submitted to _executor, each with its state
  pool_pc,         \* position of the calling thread in the pool's methods
  image_store      \* the urls image_cache.get answers

\* an ImageCache (cache/image_cache.py)
VARIABLES
  memory_cache,    \* _memory_cache, least recently used first
  memory_size,     \* _memory_size
  disk_dir,        \* the files of _disk_dir, each with its key and data
  lru_log          \* the last operation on the cache and the order of last use

svars == <<use_cache, result_cache, search_result, effects>>

kvars == <<params2, keys>>

fvars == <<fn_args, fn_value>>

vvars == <<has_bs4, detail_verify_cache, clock, verified_map, verify_idx, verify_log>>

pvars == <<max_pages, page_result, current_page, page_calls>>

hvars == <<heap, handed>>

wvars == <<is_running, cancel_requested, worker_params, worker_pc, gui_pc, signals>>

ivars == <<pending_urls, futures, executor, pool_pc, image_store>>

mvars == <<memory_cache, memory_size, disk_dir, lru_log>>

\* the variables of the objects around the service
gvars == <<hvars, wvars, ivars, mvars>>

\* the variables of the operations modelled on their own
ovars == <<fvars, vvars, pvars, gvars>>

vars == <<params, min_results, max_attempts, cancel_check, pc, raw_query, attempts,
          idx, best_result, calls, polls, cancelled, progress, returned, error,
          use_cache, result_cache, search_result, effects, params2, keys,
          fn_args, fn_value,
          has_bs4, detail_verify_cache, clock, verified_map, verify_idx, verify_log,
          max_pages, page_result, current_page, page_calls,
          heap, handed,
          is_running, cancel_requested, worker_params, worker_pc, gui_pc, signals,
          pending_urls, futures, executor, pool_pc, image_store,
          memory_cache, memory_size, disk_dir, lru_log>>

\* search() is not running
SearchIdle ==
  use_cache = TRUE /\ result_cache = {} /\ search_result = <<>> /\ effects = <<>>

\* no cache keys are being compared
KeysIdle == params2 = <<>> /\ keys = <<>>

\* no function is being applied on its own
FunctionIdle == fn_args = <<>> /\ fn_value = <<>>

\* _verify_top_items is not running and the memo is empty
VerifyIdle ==
  /\ has_bs4 = TRUE /\ detail_verify_cache = << >> /\ clock = 0
  /\ verified_map = << >> /\ verify_idx = 0 /\ verify_log = <<>>

\* search_all_pages is not running
PagesIdle ==
  max_pages = 0 /\ page_result = <<>> /\ current_page = 0 /\ page_calls = <<>>

\* no result object exists
HeapIdle == heap = <<>> /\ handed = <<>>

\* no SearchWorker exists
WorkerIdle ==
  /\ is_running = FALSE /\ cancel_requested = FALSE /\ worker_params = <<>>
  /\ worker_pc = "none" /\ gui_pc = "none" /\ signals = <<>>

\* no ImageLoaderPool exists
PoolIdle ==
  /\ pending_urls = {} /\ futures = <<>> /\ executor = <<>> /\ pool_pc = "none"
  /\ image_store = {}

\* no ImageCache exists
ImageCacheIdle ==
  memory_cache = <<>> /\ memory_size = 0 /\ disk_dir = {} /\ lru_log = <<>>

GuiIdle == HeapIdle /\ WorkerIdle /\ PoolIdle /\ ImageCacheIdle

\* the variables of the search service
servicevars == <<params, min_results, max_attempts, cancel_check, pc, raw_query,
                 attempts, idx, best_result, calls, polls, cancelled, progress,
                 returned, error, svars, kvars, fvars, vvars, pvars>>

\* none of the operations modelled on their own is running
OthersIdle == FunctionIdle /\ VerifyIdle /\ PagesIdle /\ GuiIdle

Init ==
  /\ params \in { SearchParams(a, r, p, n, m, v) :
                    a \in AvatarNames, r \in RawQueries, p \in 1..2,
                    n \in BOOLEAN, m \in BOOLEAN, v \in BOOLEAN }
  /\ min_results \in 1..MaxMinResults
  /\ max_attempts \in -1..MaxAttemptsArg
  /\ cancel_check \in BOOLEAN
  /\ pc = "entry"
  /\ raw_query = <<>>
  /\ attempts = <<>>
  /\ idx = 0
  /\ best_result = <<>>
  /\ calls = <<>>
  /\ polls = 0
  /\ cancelled = FALSE
  /\ progress = <<>>
  /\ returned = <<>>
  /\ error = <<>>
  /\ SearchIdle
  /\ KeysIdle
  /\ OthersIdle

\* calls with the alias option of the params switched off
\* (search_params.py line 102)
AliasOffInit ==
  /\ params \in { [SearchParams(a, r, p, n, m, v) EXCEPT !.alias_enabled = FALSE] :
                    a \in AvatarNames, r \in {<<>>, <<"a">>, <<"fw_a">>} \cup LongQueries,
                    p \in 1..2, n \in BOOLEAN, m \in BOOLEAN, v \in BOOLEAN }
  /\ min_results \in 1..MaxMinResults
  /\ max_attempts \in 0..MaxAttemptsArg
  /\ cancel_check \in BOOLEAN
  /\ pc = "entry"
  /\ raw_query = <<>> /\ attempts = <<>> /\ idx = 0 /\ best_result = <<>>
  /\ calls = <<>> /\ polls = 0 /\ cancelled = FALSE /\ progress = <<>>
  /\ returned = <<>> /\ error = <<>>
  /\ SearchIdle /\ KeysIdle /\ OthersIdle

\* an exception leaving the call: the step that raised it, the loop attempt
\* being searched (0 outside the loop), and whether cancel_check had answered
\* true before it was raised
Raised(source, attempt, after_cancel) ==
  [source |-> source, attempt |-> attempt, after_cancel |-> after_cancel]

\* search(params): the page it returns (from the cache, or fetched and parsed)
search(p, outcome) ==
  SearchResult(Items(outcome.n_items), outcome.total_count, p.page, p.avatar_name)

CallRecord(p, outcome) ==
  [avatar_name |-> p.avatar_name, page |-> p.page,
   n_items |-> outcome.n_items, total_count |-> outcome.total_count]

\* variant: the entry guard forgets the page number
ResolutionApplies_any_page(p) == p.normalization_enabled

\* line 170: fallback runs only on page 1 with normalization enabled
ResolutionApplies(p) == p.page = 1 /\ p.normalization_enabled

\* lines 170-182: the entry guard and the planning
Enter ==
  /\ pc = "entry"
  /\ IF ~ResolutionApplies(params)
     THEN /\ pc' = "direct"
          /\ UNCHANGED <<raw_query, attempts, idx>>
     ELSE LET rq == IF params.raw_query # <<>> THEN params.raw_query
                    ELSE params.avatar_name
              plan == _build_attempts(rq, params.normalization_enabled,
                                      params.allow_multi, max_attempts)
          IN /\ raw_query' = rq
             /\ attempts' = plan
             /\ IF plan = <<>>
                THEN pc' = "direct" /\ UNCHANGED idx
                ELSE pc' = "loop" /\ idx' = 1
  /\ UNCHANGED <<params, min_results, max_attempts, cancel_check, best_result,
                 calls, polls, cancelled, progress, returned, error>>
  /\ UNCHANGED <<svars, kvars, ovars>>

\* lines 171 and 182: return self.search(params)
DirectSearch ==
  /\ pc = "direct"
  /\ \/ \E outcome \in PageOutcomes :
          /\ calls' = Append(calls, CallRecord(params, outcome))
          /\ returned' = <<search(params, outcome)>>
          /\ pc' = "done"
          /\ UNCHANGED error
     \/ /\ pc' = "raised"          \* search() raised
        /\ error' = <<Raised("search", 0, FALSE)>>
        /\ UNCHANGED <<calls, returned>>
  /\ UNCHANGED <<params, min_results, max_attempts, cancel_check, raw_query,
                 attempts, idx, best_result, polls, cancelled, progress>>
  /\ UNCHANGED <<svars, kvars, ovars>>

\* variant: the loop catches the exception and goes on to the next attempt
SearchRaises_caught(at) ==
  /\ error' = <<Raised("search", at, FALSE)>>
  /\ pc' = "loop"
  /\ idx' = idx + 1
  /\ UNCHANGED <<calls, best_result>>

\* lines 195-196: search() raises inside the loop, which has no handler, so
\* the exception leaves search_with_fallback
SearchRaises(at) ==
  /\ pc' = "raised"
  /\ error' = <<Raised("search", at, FALSE)>>
  /\ UNCHANGED <<calls, best_result, idx>>

\* variant: the loop polls cancel_check but carries on with the search
LoopHead_ignores_cancel ==
  /\ pc = "loop"
  /\ IF idx > Len(attempts)
     THEN /\ pc' = "after_loop"
          /\ UNCHANGED <<polls, cancelled, progress>>
     ELSE \E answer \in (IF cancel_check THEN BOOLEAN ELSE {FALSE}) :
            /\ polls' = IF cancel_check THEN polls + 1 ELSE polls
            /\ cancelled' = (cancelled \/ answer)
            /\ pc' = "search"
            /\ progress' = IF attempts[idx].label # "A"
                           THEN Append(progress, attempts[idx].label)
                           ELSE progress
  /\ UNCHANGED <<params, min_results, max_attempts, cancel_check, raw_query,
                 attempts, idx, best_result, calls, returned, error>>
  /\ UNCHANGED <<svars, kvars, ovars>>

\* lines 186-194: the head of one loop iteration
LoopHead ==
  /\ pc = "loop"
  /\ IF idx > Len(attempts)
     THEN /\ pc' = "after_loop"
          /\ UNCHANGED <<polls, cancelled, progress>>
     ELSE \E answer \in (IF cancel_check THEN BOOLEAN ELSE {FALSE}) :
            /\ polls' = IF cancel_check THEN polls + 1 ELSE polls
            /\ IF answer
               THEN /\ cancelled' = TRUE
                    /\ pc' = "after_loop"
                    /\ UNCHANGED progress
               ELSE /\ pc' = "search"
                    /\ progress' = IF attempts[idx].label # "A"
                                   THEN Append(progress, attempts[idx].label)
                                   ELSE progress
                    /\ UNCHANGED cancelled
  /\ UNCHANGED <<params, min_results, max_attempts, cancel_check, raw_query,
                 attempts, idx, best_result, calls, returned, error>>
  /\ UNCHANGED <<svars, kvars, ovars>>

\* variant: the loop searches the attempt after the current one
AttemptSearch_skips ==
  /\ pc = "search"
  /\ LET at == IF idx < Len(attempts) THEN idx + 1 ELSE idx
         attempt_params == with_avatar_name(params, attempts[at].query)
     IN \/ \E outcome \in PageOutcomes :
             LET result == _apply_attempt_metadata(search(attempt_params, outcome),
                                                   raw_query, attempts[at])
             IN /\ calls' = Append(calls, CallRecord(attempt_params, outcome))
                /\ best_result' = BetterResult(best_result, result)
                /\ IF ~_should_retry(result, min_results)
                   THEN pc' = "after_loop" /\ UNCHANGED idx
                   ELSE pc' = "loop" /\ idx' = idx + 1
                /\ UNCHANGED error
        \/ SearchRaises(at)
  /\ UNCHANGED <<params, min_results, max_attempts, cancel_check, raw_query,
                 attempts, polls, cancelled, progress, returned>>
  /\ UNCHANGED <<svars, kvars, ovars>>

\* lines 191-203: the search of the current attempt
AttemptSearch ==
  /\ pc = "search"
  /\ LET attempt_params == with_avatar_name(params, attempts[idx].query)
     IN \/ \E outcome \in PageOutcomes :
             LET result == _apply_attempt_metadata(search(attempt_params, outcome),
                                                   raw_query, attempts[idx])
             IN /\ calls' = Append(calls, CallRecord(attempt_params, outcome))
                /\ best_result' = BetterResult(best_result, result)
                /\ IF ~_should_retry(result, min_results)
                   THEN pc' = "after_loop" /\ UNCHANGED idx
                   ELSE pc' = "loop" /\ idx' = idx + 1
                /\ UNCHANGED error
        \/ SearchRaises(idx)
  /\ UNCHANGED <<params, min_results, max_attempts, cancel_check, raw_query,
                 attempts, polls, cancelled, progress, returned>>
  /\ UNCHANGED <<svars, kvars, ovars>>

Min(a, b) == IF a < b THEN a ELSE b

VerifyOutcome(outcome, cancel) == [outcome |-> outcome, cancelled |-> cancel]

\* _verify_top_items (lines 457-503), as the set of its outcomes: how the call
\* ends and whether cancel_check has answered true by then.  cancel_check
\* reports a cancellation request, which is not withdrawn during the call.
\* An empty result comes back as it is, and so does any result when
\* BeautifulSoup is missing.  Otherwise cancel_check is polled before each of
\* the top_n items: true before the first item gives the result back as it
\* is; once an item has been verified (its page fetched without an error) the
\* loop's end or a later true poll leads to line 499, which reads
\* item.verified_in_description, a field BoothItem (models/booth_item.py)
\* does not have, and raises.
_verify_top_items(res, p, has_cancel_check, was_cancelled) ==
  IF is_empty(res) THEN {VerifyOutcome("returned", was_cancelled)}
  ELSE LET top_n == Min(p.verify_top_n, Len(res.items))
       IN {VerifyOutcome("returned", was_cancelled)}
          \cup (IF was_cancelled
                THEN {VerifyOutcome("returned", TRUE)}
                ELSE {VerifyOutcome("raised", FALSE)}
                     \cup (IF has_cancel_check
                           THEN {VerifyOutcome("returned", TRUE)}
                           ELSE {})
                     \cup (IF has_cancel_check /\ top_n >= 2
                           THEN {VerifyOutcome("raised", TRUE)}
                           ELSE {}))

\* variant: the empty default is tagged with the raw query
EmptyBest_raw(p, rq) ==
  _apply_attempt_metadata(SearchResultEmpty(rq), rq, SearchAttempt("A", rq, <<>>))

\* lines 206-211: the result returned when no attempt produced one
EmptyBest(p, rq) ==
  _apply_attempt_metadata(SearchResultEmpty(p.avatar_name), rq,
                          SearchAttempt("A", p.avatar_name, <<>>))

\* lines 205-221: the empty default, the verification, the return
Finish ==
  /\ pc = "after_loop"
  /\ LET best == IF best_result = <<>> THEN EmptyBest(params, raw_query)
                 ELSE best_result[1]
     IN /\ best_result' = <<best>>
        /\ IF params.verify_mode /\ params.verify_top_n > 0
           THEN \E v \in _verify_top_items(best, params, cancel_check, cancelled) :
                  /\ IF v.outcome = "returned"
                     THEN /\ returned' = <<best>>
                          /\ pc' = "done"
                          /\ UNCHANGED error
                     ELSE /\ pc' = "raised"
                          /\ error' = <<Raised("verify", 0, v.cancelled)>>
                          /\ UNCHANGED returned
           ELSE /\ returned' = <<best>>
                /\ pc' = "done"
                /\ UNCHANGED error
  /\ UNCHANGED <<params, min_results, max_attempts, cancel_check, raw_query,
                 attempts, idx, calls, polls, cancelled, progress>>
  /\ UNCHANGED <<svars, kvars, ovars>>

Next == Enter \/ DirectSearch \/ LoopHead \/ AttemptSearch \/ Finish

Spec == Init /\ [][Next]_vars

AliasOffSpec == AliasOffInit /\ [][Next]_vars

---------------------------------------------------------------------------
(* _build_attempts called on its own, over a wider range of arguments     *)

\* the characters of the planner's raw queries
PlanChars == {"a", "b", " ", ",", "\"", "fw_a", "fw_sp"}

RECURSIVE PlanStrings(_)
PlanStrings(n) ==
  IF n = 0 THEN {<<>>}
  ELSE LET shorter == PlanStrings(n - 1)
       IN shorter \cup {Append(t, c) : t \in {u \in shorter : Len(u) = n - 1}, c \in PlanChars}

PlanQueries == PlanStrings(MaxLen + 1) \cup LongQueries

\* the fallback call's variables at rest
FallbackIdle ==
  /\ min_results = 1 /\ cancel_check = FALSE /\ raw_query = <<>> /\ idx = 0
  /\ best_result = <<>> /\ calls = <<>> /\ polls = 0 /\ cancelled = FALSE
  /\ progress = <<>> /\ returned = <<>> /\ error = <<>>

\* the arguments of one _build_attempts call: params carries raw_query,
\* normalize_enabled and allow_multi
PlanInit ==
  /\ params \in { SearchParams(a, r, 1, n, m, FALSE) :
                    a \in AvatarNames, r \in PlanQueries \ {<<>>},
                    n \in BOOLEAN, m \in BOOLEAN }
  /\ max_attempts \in -2..(MaxAttemptsArg + 1)
  /\ pc = "plan"
  /\ attempts = <<>>
  /\ FallbackIdle
  /\ SearchIdle
  /\ KeysIdle
  /\ OthersIdle

\* lines 242-325: one call of _build_attempts
BuildPlan ==
  /\ pc = "plan"
  /\ attempts' = _build_attempts(params.raw_query, params.normalization_enabled,
                                 params.allow_multi, max_attempts)
  /\ pc' = "planned"
  /\ UNCHANGED <<params, min_results, max_attempts, cancel_check, raw_query, idx,
                 best_result, calls, polls, cancelled, progress, returned, error>>
  /\ UNCHANGED <<svars, kvars, ovars>>

PlanNext == BuildPlan

PlanSpec == PlanInit /\ [][PlanNext]_vars

---------------------------------------------------------------------------
(* models/booth_item.py, models/search_result.py: prices, filters, sorting *)

\* the fields of BoothItem the price filters read; price_value is <<>> for
\* None and <<v>> for the integer v
BoothItem(id, price_value) == [id |-> id, price_value |-> price_value]

\* parse_price gives PriceType.FREE exactly with price_value 0
item_is_free(item) == item.price_value = <<0>>

matches_price_range(item, min_price, max_price) ==
  IF item.price_value = <<>> THEN TRUE
  ELSE IF min_price # <<>> /\ item.price_value[1] < min_price[1] THEN FALSE
  ELSE IF max_price # <<>> /\ item.price_value[1] > max_price[1] THEN FALSE
  ELSE TRUE

filter_by_price(res, min_price, max_price) ==
  LET filtered == SelectSeq(res.items,
                            LAMBDA item : matches_price_range(item, min_price, max_price))
  IN [res EXCEPT !.items = filtered, !.total_count = Len(filtered)]

filter_free_only(res) ==
  LET filtered == SelectSeq(res.items, LAMBDA item : item_is_free(item))
  IN [res EXCEPT !.items = filtered, !.total_count = Len(filtered)]

\* sort_by_price's key: items without a price get (1, 0), the others (0, price)
price_key(item) ==
  IF item.price_value = <<>> THEN <<1, 0>> ELSE <<0, item.price_value[1]>>

\* tuple comparison k1 < k2
KeyLess(k1, k2) == k1[1] < k2[1] \/ (k1[1] = k2[1] /\ k1[2] < k2[2])

\* sorted(items, key=price_key, reverse=not ascending): a stable sort, so an
\* item goes behind every item already placed that does not come after it
RECURSIVE InsertByPrice(_, _, _)
InsertByPrice(placed, item, ascending) ==
  IF placed = <<>> THEN <<item>>
  ELSE LET goes_first == IF ascending
                         THEN KeyLess(price_key(item), price_key(Head(placed)))
                         ELSE KeyLess(price_key(Head(placed)), price_key(item))
       IN IF goes_first THEN <<item>> \o placed
          ELSE <<Head(placed)>> \o InsertByPrice(Tail(placed), item, ascending)

RECURSIVE SortedByPrice(_, _, _)
SortedByPrice(items, placed, ascending) ==
  IF items = <<>> THEN placed
  ELSE SortedByPrice(Tail(items), InsertByPrice(placed, Head(items), ascending), ascending)

sort_by_price(res, ascending) ==
  [res EXCEPT !.items = SortedByPrice(res.items, <<>>, ascending)]

\* SearchResult.to_dict: the fields stored in the cache
to_dict(res) ==
  [items |-> res.items, total_count |-> res.total_count,
   current_page |-> res.current_page, query |-> res.query,
   raw_query |-> res.raw_query, resolved_query |-> res.resolved_query,
   attempt_label |-> res.attempt_label,
   attempt_description |-> res.attempt_description,
   correction_applied |-> res.correction_applied,
   used_strategy |-> res.used_strategy, attempts_count |-> res.attempts_count]

\* SearchResult.from_dict(data, cached, cache_age)
from_dict(data, cached, cache_age) ==
  [items |-> data.items, total_count |-> data.total_count,
   current_page |-> data.current_page, query |-> data.query,
   raw_query |-> data.raw_query, resolved_query |-> data.resolved_query,
   attempt_label |-> data.attempt_label,
   attempt_description |-> data.attempt_description,
   correction_applied |-> data.correction_applied,
   used_strategy |-> data.used_strategy, attempts_count |-> data.attempts_count,
   cached |-> cached,
   cache_age_seconds |-> IF cached THEN <<cache_age>> ELSE <<>>]

---------------------------------------------------------------------------
(* models/search_params.py: cache_key                                      *)

\* str() of a small non-negative integer
Str(n) == <<"0", "1", "2", "3", "4", "5", "6", "7", "8", "9">>[n + 1]

\* str() of an Optional[int]
StrOpt(v) == IF v = <<>> THEN "None" ELSE Str(v[1])

StrBool(b) == IF b THEN "True" ELSE "False"

\* line 135-136: the price part of the key
price_str(price_range) ==
  IF price_range = <<>> THEN <<>>
  ELSE <<StrOpt(price_range[1].min_price), ":", StrOpt(price_range[1].max_price),
         ":", StrBool(price_range[1].free_only)>>

\* variant: the raw query is part of the key
key_string_with_raw_query(p) ==
  p.avatar_name \o <<":">> \o p.category \o <<":">> \o <<p.sort>> \o <<":">>
  \o price_str(p.price_range) \o <<":">> \o <<Str(p.page)>> \o <<":">> \o p.raw_query

\* lines 138-145: ":".join(key_parts), as the sequence of its characters; the
\* sort value and the decimal numbers are one element each
key_string(p) ==
  p.avatar_name \o <<":">> \o p.category \o <<":">> \o <<p.sort>> \o <<":">>
  \o price_str(p.price_range) \o <<":">> \o <<Str(p.page)>>

\* line 148: the first 16 hex digits of the SHA-256 of the key string.  The
\* digest is not computed: it is a value determined by the key string, and
\* distinct key strings of the model have distinct digests
sha256_16(text) == [sha256_16_of |-> text]

cache_key(p) == sha256_16(key_string(p))

---------------------------------------------------------------------------
(* cache/result_cache.py                                                   *)

TtlSeconds == 1        \* ResultCache.ttl_seconds, in units of the model's clock

\* a row of search_cache: the key, the stored dict, now - created_at and
\* now - accessed_at; put writes both times alike (line 193)
CacheRow(key, data, age) == [key |-> key, data |-> data, age |-> age, idle |-> age]

\* how the storage behaves during one cache call: it works, sqlite3.connect
\* raises, or a statement or the commit raises
StorageFaults == {"none", "connect", "execute"}

CacheOutcome(rows, value, raised) == [rows |-> rows, value |-> value, raised |-> raised]

\* variant: the age is counted from the last access
ResultCacheGet_ttl_from_access(rows, key, fault) ==
  LET found == {row \in rows : row.key = key}
  IN IF fault = "connect" THEN CacheOutcome(rows, <<>>, TRUE)
     ELSE IF fault = "execute" THEN CacheOutcome(rows, <<>>, FALSE)
     ELSE IF found = {} THEN CacheOutcome(rows, <<>>, FALSE)
     ELSE LET row == CHOOSE r \in found : TRUE
          IN IF row.idle > TtlSeconds
             THEN CacheOutcome(rows \ found, <<>>, FALSE)
             ELSE CacheOutcome((rows \ found) \cup {[row EXCEPT !.idle = 0]},
                               <<from_dict(row.data, TRUE, row.idle)>>, FALSE)

\* ResultCache.get (lines 105-172) with _get_connection (lines 91-103).
\* sqlite3.connect is called before the try block of _get_connection, so its
\* sqlite3.Error is not turned into CacheError and leaves get(); an error of
\* a statement or of the commit becomes CacheError, which get() answers with
\* None.  A missing row is a miss, an expired row is deleted and a miss; a
\* hit sets accessed_at to now (lines 141-144) and leaves created_at.
ResultCacheGet(rows, key, fault) ==
  LET found == {row \in rows : row.key = key}
  IN IF fault = "connect" THEN CacheOutcome(rows, <<>>, TRUE)
     ELSE IF fault = "execute" THEN CacheOutcome(rows, <<>>, FALSE)
     ELSE IF found = {} THEN CacheOutcome(rows, <<>>, FALSE)
     ELSE LET row == CHOOSE r \in found : TRUE
          IN IF row.age > TtlSeconds
             THEN CacheOutcome(rows \ found, <<>>, FALSE)
             ELSE CacheOutcome((rows \ found) \cup {[row EXCEPT !.idle = 0]},
                               <<from_dict(row.data, TRUE, row.age)>>, FALSE)

\* ResultCache.put (lines 174-203): INSERT OR REPLACE of the row of the key,
\* with the same treatment of storage errors
ResultCachePut(rows, key, res, fault) ==
  IF fault = "connect" THEN CacheOutcome(rows, <<>>, TRUE)
  ELSE IF fault = "execute" THEN CacheOutcome(rows, <<>>, FALSE)
  ELSE CacheOutcome({row \in rows : row.key # key} \cup {CacheRow(key, to_dict(res), 0)},
                    <<>>, FALSE)

---------------------------------------------------------------------------
(* core/search_service.py: search()                                        *)

\* _apply_relevance_scoring (lines 385-427): <<>> when it raises, else the
\* result.  For a non-empty result under the relevance sort, line 397 reads
\* prefs.search.recent_clicked_titles, an attribute SearchPrefs
\* (config/user_prefs.py) does not have, so it raises AttributeError; behind
\* it line 417 calls replace(item, relevance_score=..., relevance_label=...,
\* matched_tokens=...) on a BoothItem, which has none of these fields
\* (models/booth_item.py) and would raise TypeError.
_apply_relevance_scoring(res, p) ==
  IF is_empty(res) \/ p.sort # "relevance" THEN <<res>> ELSE <<>>

\* lines 429-455
_apply_client_side_filters(res, p) ==
  LET priced ==
        IF p.price_range # <<>>
        THEN IF p.price_range[1].free_only THEN filter_free_only(res)
             ELSE filter_by_price(res, p.price_range[1].min_price,
                                  p.price_range[1].max_price)
        ELSE res
  IN IF p.sort = "price_asc" THEN sort_by_price(priced, TRUE)
     ELSE IF p.sort = "price_desc" THEN sort_by_price(priced, FALSE)
     ELSE priced

\* variant: a cached result is returned as it was stored
CacheHitResult_unfiltered(cached, p) == cached

\* line 121: what a cache hit returns
CacheHitResult(cached, p) == _apply_client_side_filters(cached, p)

MaxPrice == 1

\* prices of the items on a page: none, free, paid
PriceValues == {<<>>, <<0>>, <<MaxPrice>>}

\* price filters: none, free only, a minimum, a maximum
PriceRanges ==
  { <<>>,
    <<PriceRange(<<>>, <<>>, TRUE)>>,
    <<PriceRange(<<MaxPrice>>, <<>>, FALSE)>>,
    <<PriceRange(<<>>, <<0>>, FALSE)>> }

\* the item lists of a page: up to MaxItems items, numbered in page order
RECURSIVE ItemLists(_)
ItemLists(n) ==
  IF n = 0 THEN {<<>>}
  ELSE LET shorter == ItemLists(n - 1)
       IN shorter \cup {Append(l, BoothItem(n, v)) :
                          l \in {m \in shorter : Len(m) = n - 1}, v \in PriceValues}

\* what the parser can make of a fetched page: its items and the total count
LivePages ==
  { [items |-> l, total_count |-> t] :
      l \in ItemLists(MaxItems), t \in {0, MaxItems + MaxTotal} }

\* parse_search_result (item_parser.py lines 355-386)
parse_search_result(page, p) ==
  SearchResult(page.items, page.total_count, p.page, p.avatar_name)

\* the rows a cache file can hold when search() starts: nothing, a row of
\* another page of the same search, or a row of this search written by an
\* earlier search (put never stores an empty result)
InitialCaches(p) ==
  { {} }
  \cup { {CacheRow(cache_key(with_page(p, p.page + 1)),
                   to_dict(parse_search_result(
                     [items |-> <<BoothItem(1, <<0>>)>>, total_count |-> 1],
                     with_page(p, p.page + 1))), 0)} }
  \cup { {CacheRow(cache_key(p), to_dict(parse_search_result(page, p)), age)} :
           page \in {q \in LivePages : q.items # <<>> /\ q.total_count # 0},
           age \in {0, TtlSeconds, TtlSeconds + 1} }

\* the arguments of one search() call and the cache it finds
SearchInit ==
  /\ params \in { [SearchParams(a, <<>>, 1, TRUE, FALSE, FALSE)
                     EXCEPT !.sort = s, !.price_range = r] :
                    a \in AvatarNames, s \in SortOrder, r \in PriceRanges }
  /\ use_cache \in BOOLEAN
  /\ result_cache \in InitialCaches(params)
  /\ search_result = <<>>
  /\ effects = <<>>
  /\ pc = "cache_get"
  /\ max_attempts = 0
  /\ attempts = <<>>
  /\ FallbackIdle
  /\ KeysIdle
  /\ OthersIdle

\* lines 113-121: the cache lookup and the return of a hit
CacheGet ==
  /\ pc = "cache_get"
  /\ IF ~use_cache
     THEN /\ pc' = "fetch"
          /\ UNCHANGED <<result_cache, effects, returned, error>>
     ELSE \E fault \in StorageFaults :
            LET got == ResultCacheGet(result_cache, cache_key(params), fault)
            IN /\ result_cache' = got.rows
               /\ IF got.raised
                  THEN /\ pc' = "raised"
                       /\ error' = <<Raised("cache_get", 0, FALSE)>>
                       /\ effects' = Append(effects, "cache_error")
                       /\ UNCHANGED returned
                  ELSE IF got.value # <<>>
                  THEN /\ returned' = <<CacheHitResult(got.value[1], params)>>
                       /\ effects' = effects \o <<"cache_hit", "filter">>
                       /\ pc' = "done"
                       /\ UNCHANGED error
                  ELSE /\ effects' = Append(effects, IF fault = "none" THEN "cache_miss"
                                                     ELSE "cache_error")
                       /\ pc' = "fetch"
                       /\ UNCHANGED <<returned, error>>
  /\ UNCHANGED <<params, use_cache, search_result>>
  /\ UNCHANGED <<min_results, max_attempts, cancel_check, raw_query, attempts, idx,
                 best_result, calls, polls, cancelled, progress, kvars, ovars>>

\* lines 123-131: the page fetch, which may raise, and the parse
FetchAndParse ==
  /\ pc = "fetch"
  /\ \/ \E page \in LivePages :
          /\ search_result' = <<parse_search_result(page, params)>>
          /\ effects' = effects \o <<"fetch", "parse">>
          /\ pc' = "score"
          /\ UNCHANGED error
     \/ /\ pc' = "raised"
        /\ error' = <<Raised("fetch", 0, FALSE)>>
        /\ effects' = Append(effects, "fetch")
        /\ UNCHANGED search_result
  /\ UNCHANGED <<params, use_cache, result_cache, returned>>
  /\ UNCHANGED <<min_results, max_attempts, cancel_check, raw_query, attempts, idx,
                 best_result, calls, polls, cancelled, progress, kvars, ovars>>

\* line 134: the relevance scoring
Score ==
  /\ pc = "score"
  /\ effects' = Append(effects, "score")
  /\ LET scored == _apply_relevance_scoring(search_result[1], params)
     IN IF scored = <<>>
        THEN /\ pc' = "raised"
             /\ error' = <<Raised("score", 0, FALSE)>>
             /\ UNCHANGED search_result
        ELSE /\ search_result' = scored
             /\ pc' = "cache_put"
             /\ UNCHANGED error
  /\ UNCHANGED <<params, use_cache, result_cache, returned>>
  /\ UNCHANGED <<min_results, max_attempts, cancel_check, raw_query, attempts, idx,
                 best_result, calls, polls, cancelled, progress, kvars, ovars>>

\* lines 137-138: the cache write
CachePut ==
  /\ pc = "cache_put"
  /\ IF use_cache /\ ~is_empty(search_result[1])
     THEN \E fault \in StorageFaults :
            LET put == ResultCachePut(result_cache, cache_key(params),
                                      search_result[1], fault)
            IN /\ result_cache' = put.rows
               /\ effects' = Append(effects, IF fault = "none" THEN "cache_put"
                                              ELSE "cache_put_error")
               /\ IF put.raised
                  THEN pc' = "raised" /\ error' = <<Raised("cache_put", 0, FALSE)>>
                  ELSE pc' = "filter" /\ UNCHANGED error
     ELSE /\ pc' = "filter"
          /\ UNCHANGED <<result_cache, effects, error>>
  /\ UNCHANGED <<params, use_cache, search_result, returned>>
  /\ UNCHANGED <<min_results, max_attempts, cancel_check, raw_query, attempts, idx,
                 best_result, calls, polls, cancelled, progress, kvars, ovars>>

\* lines 141-148: the client-side filters and the return
FilterAndReturn ==
  /\ pc = "filter"
  /\ returned' = <<_apply_client_side_filters(search_result[1], params)>>
  /\ effects' = Append(effects, "filter")
  /\ pc' = "done"
  /\ UNCHANGED <<params, use_cache, result_cache, search_result, error>>
  /\ UNCHANGED <<min_results, max_attempts, cancel_check, raw_query, attempts, idx,
                 best_result, calls, polls, cancelled, progress, kvars, ovars>>

SearchNext == CacheGet \/ FetchAndParse \/ Score \/ CachePut \/ FilterAndReturn

SearchSpec == SearchInit /\ [][SearchNext]_vars

---------------------------------------------------------------------------
(* cache_key() of two SearchParams                                         *)

\* values of the fields cache_key reads; a name and a category are free text
\* and may hold the separator of the key
KeyAvatars == {<<"a">>, <<"b">>, <<"a", ":", "c">>}

KeyCategories == {DefaultCategory, <<"c">>, <<"c", ":", "c">>}

KeySorts == {"relevance", "price_asc"}

KeyPriceRanges ==
  { <<>>,
    <<PriceRange(<<>>, <<>>, TRUE)>>,
    <<PriceRange(<<0>>, <<MaxPrice>>, FALSE)>> }

\* values of fields cache_key does not read: raw_query, normalize_enabled,
\* allow_multi, verify_mode, per_page
KeyVariants ==
  { [raw_query |-> <<>>, flag |-> TRUE, per_page |-> DefaultPerPage],
    [raw_query |-> <<"a", " ", "b">>, flag |-> TRUE, per_page |-> DefaultPerPage],
    [raw_query |-> <<>>, flag |-> FALSE, per_page |-> DefaultPerPage + 1] }

KeyParams ==
  { [SearchParams(a, v.raw_query, p, v.flag, ~v.flag, ~v.flag)
       EXCEPT !.category = c, !.sort = s, !.price_range = r, !.per_page = v.per_page] :
      a \in KeyAvatars, c \in KeyCategories, s \in KeySorts, r \in KeyPriceRanges,
      p \in 1..2, v \in KeyVariants }

KeyInit ==
  /\ params \in KeyParams
  /\ params2 \in KeyParams
  /\ keys = <<>>
  /\ pc = "keys"
  /\ max_attempts = 0
  /\ attempts = <<>>
  /\ FallbackIdle
  /\ SearchIdle
  /\ OthersIdle

\* cache_key() of both params
ComputeKeys ==
  /\ pc = "keys"
  /\ keys' = <<cache_key(params), cache_key(params2)>>
  /\ pc' = "keyed"
  /\ UNCHANGED <<params, params2, svars>>
  /\ UNCHANGED <<min_results, max_attempts, cancel_check, raw_query, attempts, idx,
                 best_result, calls, polls, cancelled, progress, returned, error, ovars>>

KeyNext == ComputeKeys

KeySpec == KeyInit /\ [][KeyNext]_vars

---------------------------------------------------------------------------
(* models/search_result.py: merge                                          *)

\* no call of the service is running
ServiceIdle ==
  /\ params = <<>> /\ max_attempts = 0 /\ attempts = <<>>
  /\ FallbackIdle /\ SearchIdle /\ KeysIdle /\ VerifyIdle /\ PagesIdle /\ GuiIdle

\* a SearchResult with its paging fields total_pages and has_next
PagedResult(res, total_pages, has_next) ==
  [items |-> res.items, total_count |-> res.total_count,
   current_page |-> res.current_page,
   total_pages |-> total_pages, has_next |-> has_next,
   query |-> res.query, cached |-> res.cached,
   cache_age_seconds |-> res.cache_age_seconds,
   raw_query |-> res.raw_query, resolved_query |-> res.resolved_query,
   attempt_label |-> res.attempt_label,
   attempt_description |-> res.attempt_description,
   correction_applied |-> res.correction_applied,
   used_strategy |-> res.used_strategy, attempts_count |-> res.attempts_count]

\* variant: the paging fields of the left result are kept
merge_keeps_left_paging(self, other) ==
  [self EXCEPT !.items = self.items \o other.items,
               !.total_count = other.total_count,
               !.cached = FALSE, !.cache_age_seconds = <<>>]

\* SearchResult.merge(other): a new SearchResult; cache_age_seconds is not
\* passed and takes the dataclass default None
merge(self, other) ==
  [items |-> self.items \o other.items,
   total_count |-> other.total_count,
   current_page |-> other.current_page,
   total_pages |-> other.total_pages,
   has_next |-> other.has_next,
   query |-> self.query,
   cached |-> FALSE,
   cache_age_seconds |-> <<>>,
   raw_query |-> self.raw_query,
   resolved_query |-> self.resolved_query,
   attempt_label |-> self.attempt_label,
   attempt_description |-> self.attempt_description,
   correction_applied |-> self.correction_applied,
   used_strategy |-> self.used_strategy,
   attempts_count |-> self.attempts_count]

\* the provenance a result can carry: of a plain search(), of attempt A and
\* of a corrected attempt B; the used_strategy and attempts_count values
\* other than the defaults are values a caller can assign
MergeProvenances ==
  { [raw_query |-> <<>>, resolved_query |-> <<>>, label |-> "A", description |-> <<>>,
     correction_applied |-> FALSE, used_strategy |-> "original", attempts_count |-> 1],
    [raw_query |-> <<"a">>, resolved_query |-> <<"a">>, label |-> "A", description |-> <<>>,
     correction_applied |-> FALSE, used_strategy |-> "original", attempts_count |-> 1],
    [raw_query |-> <<"a", " ", "b">>, resolved_query |-> <<"a", "b">>, label |-> "B",
     description |-> <<"no_space">>, correction_applied |-> TRUE,
     used_strategy |-> "normalized", attempts_count |-> 2] }

\* the results merge is applied to: pages of up to MaxItems items, fresh or
\* restored from the cache
MergeResults ==
  { PagedResult(
      [SearchResult(items, Len(items) + extra, page, v.resolved_query) EXCEPT
         !.raw_query = v.raw_query, !.resolved_query = v.resolved_query,
         !.attempt_label = v.label, !.attempt_description = v.description,
         !.correction_applied = v.correction_applied,
         !.used_strategy = v.used_strategy, !.attempts_count = v.attempts_count,
         !.cached = c, !.cache_age_seconds = IF c THEN <<0>> ELSE <<>>],
      page + more, more > 0) :
      items \in {Items(n) : n \in 0..MaxItems}, extra \in 0..MaxTotal, page \in 1..2,
      more \in 0..1, v \in MergeProvenances, c \in BOOLEAN }

MergeInit ==
  /\ fn_args \in MergeResults \X MergeResults
  /\ fn_value = <<>>
  /\ pc = "merge"
  /\ ServiceIdle

\* R1.merge(R2): R1 and R2 are read, not assigned
Merge ==
  /\ pc = "merge"
  /\ fn_value' = <<merge(fn_args[1], fn_args[2])>>
  /\ pc' = "merged"
  /\ UNCHANGED fn_args
  /\ UNCHANGED <<params, min_results, max_attempts, cancel_check, raw_query, attempts,
                 idx, best_result, calls, polls, cancelled, progress, returned, error,
                 svars, kvars, vvars, pvars, gvars>>

MergeNext == Merge

MergeSpec == MergeInit /\ [][MergeNext]_vars

---------------------------------------------------------------------------
(* utils/query_normalization.py and utils/query_normalize.py on their own  *)

\* an str argument, or None
StrArg(text) == [is_none |-> FALSE, text |-> text]

NoneArg == [is_none |-> TRUE, text |-> <<>>]

\* query_normalization.normalize_query with its None check (lines 46-47)
normalize_query_arg(arg) ==
  IF arg.is_none THEN <<>> ELSE normalize_query(arg.text)

\* query_normalize.normalize_query (lines 36-53): the same steps over the
\* module's own copy of the punctuation map
query_normalize_normalize_query(raw) ==
  IF raw.is_none THEN <<>>
  ELSE LET normalized == MapChars(raw.text, "nfkc")
       IN IF normalized = <<>> THEN <<>>
          ELSE Strip(WhitespaceSub(MapChars(normalized, "punct"), <<" ">>, FALSE))

\* the characters of the strings that are normalized: a letter, the three
\* kinds of whitespace, characters NFKC folds and characters the punctuation
\* map replaces
NormChars ==
  {"a", " ", "nl", "fw_sp", "fw_a", "mid_dot", "v_comma", "id_comma", "l_corner"}

RECURSIVE NormStrings(_)
NormStrings(n) ==
  IF n = 0 THEN {<<>>}
  ELSE LET shorter == NormStrings(n - 1)
       IN shorter \cup {Append(s, c) : s \in {t \in shorter : Len(t) = n - 1}, c \in NormChars}

NormInit ==
  /\ fn_args \in {StrArg(t) : t \in NormStrings(MaxLen + 1)} \cup {NoneArg}
  /\ fn_value = <<>>
  /\ pc = "normalize"
  /\ ServiceIdle

\* normalize_query(x) and normalize_query(normalize_query(x)) of both modules
Normalize ==
  /\ pc = "normalize"
  /\ LET once == normalize_query_arg(fn_args)
         once2 == query_normalize_normalize_query(fn_args)
     IN fn_value' = [once |-> once,
                     twice |-> normalize_query_arg(StrArg(once)),
                     once2 |-> once2,
                     twice2 |-> query_normalize_normalize_query(StrArg(once2))]
  /\ pc' = "normalized"
  /\ UNCHANGED fn_args
  /\ UNCHANGED <<params, min_results, max_attempts, cancel_check, raw_query, attempts,
                 idx, best_result, calls, polls, cancelled, progress, returned, error,
                 svars, kvars, vvars, pvars, gvars>>

NormNext == Normalize

NormSpec == NormInit /\ [][NormNext]_vars

---------------------------------------------------------------------------
(* split_multi_query and parse_multi_query on their own                    *)

\* query_normalization.split_multi_query with its None check (lines 64-65)
split_multi_query_arg(arg) ==
  IF arg.is_none THEN <<>> ELSE split_multi_query(arg.text)

\* the loop of parse_multi_query (lines 68-73): a part is kept when it is
\* not in seen
RECURSIVE UniqueParts(_, _)
UniqueParts(cleaned, seen) ==
  IF cleaned = <<>> THEN <<>>
  ELSE LET part == Head(cleaned)
       IN IF part # <<>> /\ part \notin seen
          THEN <<part>> \o UniqueParts(Tail(cleaned), seen \cup {part})
          ELSE UniqueParts(Tail(cleaned), seen)

\* query_normalize.parse_multi_query (lines 56-75)
parse_multi_query(raw) ==
  IF raw.is_none THEN <<>>
  ELSE UniqueParts(StripNonEmpty(ReSplit(raw.text, <<>>, FALSE)), {})

\* the characters of the strings that are split: two letters, whitespace
\* and the five separators
SplitChars == {"a", "b", " ", ",", ";", "/", "|", "nl"}

RECURSIVE SplitStrings(_)
SplitStrings(n) ==
  IF n = 0 THEN {<<>>}
  ELSE LET shorter == SplitStrings(n - 1)
       IN shorter \cup {Append(s, c) : s \in {t \in shorter : Len(t) = n - 1}, c \in SplitChars}

SplitInit ==
  /\ fn_args \in {StrArg(t) : t \in SplitStrings(MaxLen + 1)} \cup {NoneArg}
  /\ fn_value = <<>>
  /\ pc = "split"
  /\ ServiceIdle

\* both splitters applied to the same text
Split ==
  /\ pc = "split"
  /\ fn_value' = [split_multi_query |-> split_multi_query_arg(fn_args),
                  parse_multi_query |-> parse_multi_query(fn_args)]
  /\ pc' = "split_done"
  /\ UNCHANGED fn_args
  /\ UNCHANGED <<params, min_results, max_attempts, cancel_check, raw_query, attempts,
                 idx, best_result, calls, polls, cancelled, progress, returned, error,
                 svars, kvars, vvars, pvars, gvars>>

SplitNext == Split

SplitSpec == SplitInit /\ [][SplitNext]_vars

---------------------------------------------------------------------------
(* build_alias_map over the datasets a user can write                      *)

\* canonical names of an alias file: two names, a blank one, and a name
\* with a trailing space
AliasNames == {<<"a">>, <<"b">>, <<" ">>, <<"b", " ">>}

\* variant spellings: plain, full-width (normalized to "a"), and one that
\* normalizes to the empty string
AliasVariants == {<<"a">>, <<"fw_a">>, <<"c">>, <<"fw_sp">>}

AliasVariantLists ==
  {<<>>} \cup {<<v>> : v \in AliasVariants}
         \cup {<<v, w>> : v \in AliasVariants, w \in AliasVariants}

AliasEntries ==
  {[canonical |-> c, variants |-> l] : c \in AliasNames, l \in AliasVariantLists}

\* the datasets load_avatar_aliases can return: up to MaxAliasEntries
\* entries in file order, no canonical name twice (they are dict keys)
RECURSIVE AliasDatasets(_)
AliasDatasets(n) ==
  IF n = 0 THEN {<<>>}
  ELSE LET shorter == AliasDatasets(n - 1)
       IN shorter \cup
          {de \in {Append(d, e) : d \in {t \in shorter : Len(t) = n - 1},
                                   e \in AliasEntries} :
             \A k \in 1..(n - 1) : de[k].canonical # de[n].canonical}

AliasInit ==
  /\ fn_args \in AliasDatasets(MaxAliasEntries)
  /\ fn_value = <<>>
  /\ pc = "build_alias_map"
  /\ ServiceIdle

\* build_alias_map(normalize_query) over the loaded dataset
BuildAliasMap ==
  /\ pc = "build_alias_map"
  /\ fn_value' = <<BuildAliasEntries(fn_args, << >>)>>
  /\ pc' = "alias_map_built"
  /\ UNCHANGED fn_args
  /\ UNCHANGED <<params, min_results, max_attempts, cancel_check, raw_query, attempts,
                 idx, best_result, calls, polls, cancelled, progress, returned, error,
                 svars, kvars, vvars, pvars, gvars>>

AliasNext == BuildAliasMap

AliasSpec == AliasInit /\ [][AliasNext]_vars

---------------------------------------------------------------------------
(* utils/relevance_scoring.py, data/relevance_config.py                    *)

\* str.lower() on the characters of the model
Lower(text) == [k \in 1..Len(text) |-> IF text[k] = "A" THEN "a" ELSE text[k]]

\* needle in hay
IsSubstring(needle, hay) ==
  \E k \in 0..(Len(hay) - Len(needle)) : SubSeq(hay, k + 1, k + Len(needle)) = needle

\* _WHITESPACE_RE.split(text) without the empty tokens
RECURSIVE WhitespaceSplit(_, _)
WhitespaceSplit(text, cur) ==
  IF text = <<>> THEN (IF cur = <<>> THEN <<>> ELSE <<cur>>)
  ELSE IF Head(text) \in Whitespace
       THEN (IF cur = <<>> THEN <<>> ELSE <<cur>>) \o WhitespaceSplit(Tail(text), <<>>)
       ELSE WhitespaceSplit(Tail(text), Append(cur, Head(text)))

tokenize_query(text) ==
  LET normalized == normalize_query(text)
  IN IF normalized = <<>> THEN <<>> ELSE WhitespaceSplit(normalized, <<>>)

\* _DEFAULT_CONFIG.score
exact_title_match == 50
token_match == 10
positive_keyword == 5
negative_keyword == -15
unrelated_keyword == -8
recent_click_title == 6
recent_click_shop == 4

DefaultScoreWeights ==
  [exact_title_match |-> exact_title_match, token_match |-> token_match,
   positive_keyword |-> positive_keyword, negative_keyword |-> negative_keyword,
   unrelated_keyword |-> unrelated_keyword,
   recent_click_title |-> recent_click_title, recent_click_shop |-> recent_click_shop]

\* score_weights.get(key, 0)
WeightGet(score_weights, key) ==
  IF key \in DOMAIN score_weights THEN score_weights[key] ELSE 0

\* the token loop (lines 52-56): the score added and the tokens matched
RECURSIVE TokenMatches(_, _, _)
TokenMatches(tokens, title_norm, score_weights) ==
  IF tokens = <<>> THEN [score |-> 0, matched |-> <<>>]
  ELSE LET token_norm == Lower(Head(tokens))
           rest == TokenMatches(Tail(tokens), title_norm, score_weights)
       IN IF token_norm # <<>> /\ IsSubstring(token_norm, title_norm)
          THEN [score |-> WeightGet(score_weights, "token_match") + rest.score,
                matched |-> <<token_norm>> \o rest.matched]
          ELSE rest

\* a keyword loop (lines 58-71): the weight is added for every keyword found
\* in one of the texts
RECURSIVE KeywordScore(_, _, _)
KeywordScore(keywords, texts, weight) ==
  IF keywords = <<>> THEN 0
  ELSE LET key_norm == Lower(normalize_query(Head(keywords)))
       IN (IF key_norm # <<>> /\ \E t \in texts : IsSubstring(key_norm, t)
           THEN weight ELSE 0)
          + KeywordScore(Tail(keywords), texts, weight)

\* variant: the recent-click weight is added for every matching entry
RecentScore_per_match(recent, text, weight) ==
  KeywordScore(recent, {text}, weight)

\* a recent-click loop (lines 73-85): the weight is added at the first
\* matching entry and the loop ends
RECURSIVE RecentScore(_, _, _)
RecentScore(recent, text, weight) ==
  IF recent = <<>> THEN 0
  ELSE LET clicked_norm == Lower(normalize_query(Head(recent)))
       IN IF clicked_norm # <<>> /\ IsSubstring(clicked_norm, text)
          THEN weight
          ELSE RecentScore(Tail(recent), text, weight)

\* tuple(dict.fromkeys(matched_tokens))
RECURSIVE FromKeys(_, _)
FromKeys(tokens, seen) ==
  IF tokens = <<>> THEN <<>>
  ELSE IF Head(tokens) \in seen THEN FromKeys(Tail(tokens), seen)
       ELSE <<Head(tokens)>> \o FromKeys(Tail(tokens), seen \cup {Head(tokens)})

\* compute_relevance_score(...): (score, matched_tokens); an absent list of
\* recent clicks (None) and an empty one are both <<>>
compute_relevance_score(title, shop_name, avatar_name, positive_keywords, negative_keywords, unrelated_keywords, score_weights, recent_clicked_titles, recent_clicked_shops) ==
  LET title_norm == Lower(normalize_query(title))
      shop_norm == Lower(normalize_query(shop_name))
      avatar_norm == Lower(normalize_query(avatar_name))
      exact == avatar_norm # <<>> /\ IsSubstring(avatar_norm, title_norm)
      tokens == TokenMatches(tokenize_query(avatar_name), title_norm, score_weights)
  IN [score |->
        (IF exact THEN WeightGet(score_weights, "exact_title_match") ELSE 0)
        + tokens.score
        + KeywordScore(positive_keywords, {title_norm},
                       WeightGet(score_weights, "positive_keyword"))
        + KeywordScore(negative_keywords, {title_norm},
                       WeightGet(score_weights, "negative_keyword"))
        + KeywordScore(unrelated_keywords, {title_norm, shop_norm},
                       WeightGet(score_weights, "unrelated_keyword"))
        + RecentScore(recent_clicked_titles, title_norm,
                      WeightGet(score_weights, "recent_click_title"))
        + RecentScore(recent_clicked_shops, shop_norm,
                      WeightGet(score_weights, "recent_click_shop")),
      matched_tokens |->
        FromKeys((IF exact THEN <<avatar_norm>> ELSE <<>>) \o tokens.matched, {})]

\* the characters of titles: the letters of avatar names, "p" stands for a
\* positive keyword and "n" for a negative one ("u", an unrelated keyword,
\* and "s" occur in the longer titles and in shop names)
ScoreChars == {"a", "b", " ", "p", "n"}

RECURSIVE ScoreStrings(_)
ScoreStrings(n) ==
  IF n = 0 THEN {<<>>}
  ELSE LET shorter == ScoreStrings(n - 1)
       IN shorter \cup {Append(s, c) : s \in {t \in shorter : Len(t) = n - 1}, c \in ScoreChars}

\* titles: every short string, and longer ones with an exact match of a
\* two-token name beside keywords
ScoreTitles ==
  ScoreStrings(MaxLen)
  \cup { <<"A", " ", "b">>, <<"a", " ", "b", " ", "n">>, <<"a", " ", "b", " ", "p", "n">>,
         <<"a", "fw_sp", "b", "n", "u">>, <<"b", " ", "a">>, <<"a", " ", "a", "u">> }

ScoreShops == {<<>>, <<"u">>, <<"s", "u">>}

ScoreAvatars == {<<>>, <<"a">>, <<"A", " ", "b">>, <<"a", " ", "a">>}

\* keyword lists and recent clicks: one or two keywords of a kind, a keyword
\* that normalizes to nothing, two recent entries that both match
ScoreConfigs ==
  { [positive |-> <<>>, negative |-> <<>>, unrelated |-> <<>>,
     recent_titles |-> <<>>, recent_shops |-> <<>>],
    [positive |-> <<<<"p">>>>, negative |-> <<<<"n">>>>, unrelated |-> <<<<"u">>>>,
     recent_titles |-> <<>>, recent_shops |-> <<>>],
    [positive |-> <<<<"p">>, <<"b">>>>, negative |-> <<<<"n">>, <<"b", " ", "n">>>>,
     unrelated |-> <<<<"u">>, <<"s">>>>,
     recent_titles |-> <<<<"b">>, <<"a">>>>, recent_shops |-> <<<<"u">>, <<"s">>>>],
    [positive |-> <<<<"fw_sp">>>>, negative |-> <<<<"n">>, <<"n">>>>, unrelated |-> <<>>,
     recent_titles |-> <<<<"c">>, <<"a">>>>, recent_shops |-> <<<<" ">>>>] }

ScoreInit ==
  /\ fn_args \in [title : ScoreTitles, shop_name : ScoreShops, avatar_name : ScoreAvatars,
                  config : ScoreConfigs]
  /\ fn_value = <<>>
  /\ pc = "compute_score"
  /\ ServiceIdle

\* one call of compute_relevance_score with the default weights
ComputeScore ==
  /\ pc = "compute_score"
  /\ fn_value' = compute_relevance_score(
                   fn_args.title, fn_args.shop_name, fn_args.avatar_name,
                   fn_args.config.positive, fn_args.config.negative,
                   fn_args.config.unrelated, DefaultScoreWeights,
                   fn_args.config.recent_titles, fn_args.config.recent_shops)
  /\ pc' = "score_computed"
  /\ UNCHANGED fn_args
  /\ UNCHANGED <<params, min_results, max_attempts, cancel_check, raw_query, attempts,
                 idx, best_result, calls, polls, cancelled, progress, returned, error,
                 svars, kvars, vvars, pvars, gvars>>

ScoreNext == ComputeScore

ScoreSpec == ScoreInit /\ [][ScoreNext]_vars

---------------------------------------------------------------------------
(* _apply_relevance_scoring on its own, over items with titles             *)

\* a BoothItem with its name and shop_name (booth_item.py lines 40-47)
NamedItem(id, name, shop_name) ==
  [id |-> id, price_value |-> <<>>, name |-> name, shop_name |-> shop_name]

\* SearchService._relevance_config: one keyword of each kind stands for the
\* lists of _DEFAULT_CONFIG
_relevance_config ==
  [positive_keywords |-> <<<<"p">>>>, negative_keywords |-> <<<<"n">>>>,
   unrelated_keywords |-> <<<<"u">>>>, score |-> DefaultScoreWeights]

\* item titles: an exact match, one with a negative keyword, one with a
\* positive keyword, no match
ScoringTitles ==
  {<<"a">>, <<"a", " ", "n">>, <<"a", " ", "p">>, <<"b">>}

\* the item lists of a parsed page: up to MaxItems items, numbered in page
\* order
RECURSIVE ScoringItemLists(_)
ScoringItemLists(n) ==
  IF n = 0 THEN {<<>>}
  ELSE LET shorter == ScoringItemLists(n - 1)
       IN shorter \cup {Append(l, NamedItem(n, t, <<>>)) :
                          l \in {m \in shorter : Len(m) = n - 1}, t \in ScoringTitles}

ScoringInit ==
  /\ fn_args \in [result : {SearchResult(l, Len(l), 1, <<"a">>) :
                             l \in ScoringItemLists(MaxItems)},
                  params : {[SearchParams(<<"a">>, <<>>, 1, TRUE, TRUE, FALSE)
                               EXCEPT !.sort = s] : s \in SortOrder}]
  /\ fn_value = <<>>
  /\ pc = "scoring"
  /\ ServiceIdle

\* one call of _apply_relevance_scoring: it returns or raises
ApplyScoring ==
  /\ pc = "scoring"
  /\ fn_value' = _apply_relevance_scoring(fn_args.result, fn_args.params)
  /\ pc' = IF fn_value' = <<>> THEN "scoring_raised" ELSE "scoring_returned"
  /\ UNCHANGED fn_args
  /\ UNCHANGED <<params, min_results, max_attempts, cancel_check, raw_query, attempts,
                 idx, best_result, calls, polls, cancelled, progress, returned, error,
                 svars, kvars, vvars, pvars, gvars>>

ScoringNext == ApplyScoring

ScoringSpec == ScoringInit /\ [][ScoringNext]_vars

---------------------------------------------------------------------------
(* core/search_service.py: _verify_top_items and the verification memo     *)

\* _detail_cache_ttl, derived from the setting of the result cache's TTL
_detail_cache_ttl == TtlSeconds

\* a memo entry (verified, timestamp)
MemoEntry(verified, timestamp) == [verified |-> verified, timestamp |-> timestamp]

\* dict.pop(item_id, None)
MemoPop(memo, item_id) == [k \in (DOMAIN memo) \ {item_id} |-> memo[k]]

\* variant: an expired entry is still served
_get_cached_verification_ignores_ttl(memo, item_id, now) ==
  IF item_id = "" \/ item_id \notin DOMAIN memo
  THEN [value |-> <<>>, memo |-> memo]
  ELSE [value |-> <<memo[item_id].verified>>, memo |-> memo]

\* _get_cached_verification (lines 535-548) at time now: the value returned
\* (<<>> for None) and the memo it leaves
_get_cached_verification(memo, item_id, now) ==
  IF item_id = "" THEN [value |-> <<>>, memo |-> memo]
  ELSE IF item_id \notin DOMAIN memo THEN [value |-> <<>>, memo |-> memo]
  ELSE IF now - memo[item_id].timestamp > _detail_cache_ttl
       THEN [value |-> <<>>, memo |-> MemoPop(memo, item_id)]
       ELSE [value |-> <<memo[item_id].verified>>, memo |-> memo]

\* _set_cached_verification (lines 550-553) at time now
_set_cached_verification(memo, item_id, verified, now) ==
  IF item_id = "" THEN memo
  ELSE [k \in (DOMAIN memo) \cup {item_id} |->
          IF k = item_id THEN MemoEntry(verified, now) ELSE memo[k]]

\* client.get_item_page(item.id): the description text of the item's page.
\* The page of item "1" names the avatar "a", the page of item "2" another
\* avatar, "b"
get_item_page(item_id) ==
  IF item_id = "2" THEN <<"b", " ", "x">> ELSE <<"x", " ", "A">>

\* _check_avatar_in_description (lines 505-533): a token of the avatar name
\* occurs in the normalized, lower-cased description
_check_avatar_in_description(description_text, avatar_name) ==
  LET avatar_tokens == tokenize_query(avatar_name)
      description_norm == Lower(normalize_query(description_text))
  IN \E k \in 1..Len(avatar_tokens) :
       LET token_norm == Lower(normalize_query(avatar_tokens[k]))
       IN token_norm # <<>> /\ IsSubstring(token_norm, description_norm)

\* verified_map[item.id] = verified
MapPut(map, key, val) ==
  [k \in (DOMAIN map) \cup {key} |-> IF k = key THEN val ELSE map[k]]

\* item ids of a result page; "" is the id of an item whose URL gave none
VerifyIds == {"", "1", "2"}

\* the item lists of the best result: up to MaxItems items, an id can occur
\* twice
RECURSIVE VerifyItemLists(_)
VerifyItemLists(n) ==
  IF n = 0 THEN {<<>>}
  ELSE LET shorter == VerifyItemLists(n - 1)
       IN shorter \cup {Append(l, BoothItem(i, <<>>)) :
                          l \in {m \in shorter : Len(m) = n - 1}, i \in VerifyIds}

\* the time at which the call starts: late enough for an entry to have expired
StartTime == _detail_cache_ttl + 1

\* what earlier calls, for this avatar name or another, can have left in the
\* memo for an id: nothing, a fresh entry, one exactly _detail_cache_ttl old,
\* an expired one
VerifyMemos ==
  LET choices == {<<>>, <<MemoEntry(TRUE, StartTime)>>, <<MemoEntry(FALSE, 1)>>,
                  <<MemoEntry(TRUE, 0)>>}
  IN { [k \in {i \in {"1", "2"} : c[i] # <<>>} |-> c[k][1]] :
         c \in [{"1", "2"} -> choices] }

\* an entry of verify_log: a poll of cancel_check with its answer
PollEvent(answer) == [kind |-> "poll", answer |-> answer]

\* an entry of verify_log: one item of the loop, the memo entry found for its
\* id (<<>> for none), the time of the lookup, whether get_item_page was
\* called, and how the iteration ended: "reused", "stored" or "raised"
ItemEvent(id, entry, now, fetched, outcome) ==
  [kind |-> "item", id |-> id, entry |-> entry, now |-> now, fetched |-> fetched,
   outcome |-> outcome]

\* search_with_fallback at line 213: the attempt loop is over, best_result is
\* set, verify_mode is on and verify_top_n is positive
VerifyInit ==
  /\ params \in {[SearchParams(<<"a">>, <<>>, 1, TRUE, TRUE, TRUE)
                    EXCEPT !.verify_top_n = n] : n \in {1, VerifyTopN}}
  /\ best_result \in {<<SearchResult(l, Len(l), 1, <<"a">>)>> :
                        l \in VerifyItemLists(MaxItems)}
  /\ cancel_check \in BOOLEAN
  /\ has_bs4 \in BOOLEAN
  /\ detail_verify_cache \in VerifyMemos
  /\ clock = StartTime
  /\ verified_map = << >>
  /\ verify_idx = 0
  /\ verify_log = <<>>
  /\ pc = "verify_entry"
  /\ min_results = 1 /\ max_attempts = 0 /\ raw_query = <<>> /\ attempts = <<>>
  /\ idx = 0 /\ calls = <<>> /\ polls = 0 /\ cancelled = FALSE
  /\ progress = <<>> /\ returned = <<>> /\ error = <<>>
  /\ SearchIdle /\ KeysIdle /\ FunctionIdle /\ PagesIdle /\ GuiIdle

\* min(params.verify_top_n, len(result.items))
top_n == Min(params.verify_top_n, Len(best_result[1].items))

\* lines 464-475: the early returns of _verify_top_items
VerifyEnter ==
  /\ pc = "verify_entry"
  /\ IF is_empty(best_result[1]) \/ ~has_bs4 \/ top_n <= 0
     THEN /\ returned' = best_result
          /\ pc' = "done"
          /\ UNCHANGED verify_idx
     ELSE /\ verify_idx' = 1
          /\ pc' = "verify_item"
          /\ UNCHANGED returned
  /\ UNCHANGED <<params, min_results, max_attempts, cancel_check, raw_query, attempts,
                 idx, best_result, calls, polls, cancelled, progress, error>>
  /\ UNCHANGED <<has_bs4, detail_verify_cache, clock, verified_map, verify_log>>
  /\ UNCHANGED <<svars, kvars, fvars, pvars, gvars>>

\* lines 476-492: one iteration of the loop over the top items.  The poll
\* can end the loop; otherwise the memo is consulted at the current time and
\* on a miss the detail page is fetched, which can raise, and the verdict of
\* _check_avatar_in_description is stored
VerifyItem ==
  /\ pc = "verify_item"
  /\ \E dt \in 0..1, answer \in {a \in BOOLEAN : a => cancel_check},
        fetch_ok \in BOOLEAN :
       LET item_id == best_result[1].items[verify_idx].id
           verdict == _check_avatar_in_description(get_item_page(item_id),
                                                   params.avatar_name)
           now == clock + dt
           polled == IF cancel_check THEN <<PollEvent(answer)>> ELSE <<>>
           entry == IF item_id \in DOMAIN detail_verify_cache
                    THEN <<detail_verify_cache[item_id]>> ELSE <<>>
           cached == _get_cached_verification(detail_verify_cache, item_id, now)
           next_pc == IF verify_idx + 1 > top_n THEN "verify_apply" ELSE "verify_item"
       IN /\ clock' = now
          /\ IF answer
             THEN /\ verify_log' = verify_log \o polled
                  /\ pc' = "verify_apply"
                  /\ UNCHANGED <<detail_verify_cache, verified_map, verify_idx,
                                 progress, error>>
             ELSE /\ progress' = Append(progress, <<"verify", verify_idx, top_n>>)
                  /\ IF cached.value # <<>>
                     THEN /\ verify_log' = verify_log \o polled \o
                               <<ItemEvent(item_id, entry, now, FALSE, "reused")>>
                          /\ detail_verify_cache' = cached.memo
                          /\ verified_map' = MapPut(verified_map, item_id, cached.value[1])
                          /\ verify_idx' = verify_idx + 1
                          /\ pc' = next_pc
                          /\ UNCHANGED error
                     ELSE IF fetch_ok
                     THEN /\ verify_log' = verify_log \o polled \o
                               <<ItemEvent(item_id, entry, now, TRUE, "stored")>>
                          /\ detail_verify_cache' =
                               _set_cached_verification(cached.memo, item_id, verdict, now)
                          /\ verified_map' = MapPut(verified_map, item_id, verdict)
                          /\ verify_idx' = verify_idx + 1
                          /\ pc' = next_pc
                          /\ UNCHANGED error
                     ELSE /\ verify_log' = verify_log \o polled \o
                               <<ItemEvent(item_id, entry, now, TRUE, "raised")>>
                          /\ detail_verify_cache' = cached.memo
                          /\ error' = <<Raised("verify_fetch", 0, FALSE)>>
                          /\ pc' = "raised"
                          /\ UNCHANGED <<verified_map, verify_idx>>
  /\ UNCHANGED <<params, min_results, max_attempts, cancel_check, raw_query, attempts,
                 idx, best_result, calls, polls, cancelled, returned>>
  /\ UNCHANGED has_bs4
  /\ UNCHANGED <<svars, kvars, fvars, pvars, gvars>>

\* lines 494-503 and the return of line 221: with nothing verified the result
\* is returned as it is; otherwise line 499 evaluates
\* item.verified_in_description for the first item, an attribute BoothItem
\* does not have, and AttributeError leaves the call
VerifyApply ==
  /\ pc = "verify_apply"
  /\ IF DOMAIN verified_map = {}
     THEN /\ returned' = best_result
          /\ pc' = "done"
          /\ UNCHANGED error
     ELSE /\ error' = <<Raised("verify_apply", 0, FALSE)>>
          /\ pc' = "raised"
          /\ UNCHANGED returned
  /\ UNCHANGED <<params, min_results, max_attempts, cancel_check, raw_query, attempts,
                 idx, best_result, calls, polls, cancelled, progress>>
  /\ UNCHANGED vvars
  /\ UNCHANGED <<svars, kvars, fvars, pvars, gvars>>

VerifyNext == VerifyEnter \/ VerifyItem \/ VerifyApply

VerifySpec == VerifyInit /\ [][VerifyNext]_vars

(***************************************************************************)
(* search_all_pages (search_service.py lines 555-590): the first page by   *)
(* search_with_fallback, the following pages by search(), merged.          *)
(***************************************************************************)

\* the provenance search_with_fallback can leave on the first page: none on
\* the direct path (line 170), else the query of the attempt that was kept
FirstPageResolved(p) ==
  IF ResolutionApplies(p) THEN {p.avatar_name, <<"b">>} ELSE {<<>>}

\* a page as parse_search_result builds it (item_parser.py lines 355-386):
\* total_pages >= 1 and has_next = page < total_pages; SearchResult.empty
\* (search_result.py lines 113-130) has total_pages = 0 and no item
\* a page carries no item or MaxItems items
PageResults(p, page, resolved) ==
  { PagedResult(
      [SearchResult(Items(nt[1]), nt[1], page, p.avatar_name) EXCEPT
         !.raw_query = IF resolved = <<>> THEN <<>> ELSE p.raw_query,
         !.resolved_query = resolved],
      nt[2], page < nt[2]) :
      nt \in {x \in {0, MaxItems} \X (0..MaxTotalPages) : x[2] = 0 => x[1] = 0} }

\* one search made by search_all_pages
PageCall(fn, p, outcome) == [fn |-> fn, params |-> p, outcome |-> outcome]

\* what a search did: raised, returned no item, returned items
PageOutcome(out) ==
  IF out = <<>> THEN "raised" ELSE IF is_empty(out[1]) THEN "empty" ELSE "items"

\* lines 582-584: result.resolved_query or params.avatar_name, then the page
NextPageParams(p, res, page) ==
  with_page(with_avatar_name(p, IF res.resolved_query # <<>>
                                THEN res.resolved_query ELSE p.avatar_name),
            page)

\* variant: max_pages is not looked at
PageLimit_ignores_max_pages(p, n, res) == res.total_pages

\* line 581: min(params.page + max_pages - 1, result.total_pages)
PageLimit(p, n, res) == Min(p.page + n - 1, res.total_pages)

PagesInit ==
  /\ params \in {SearchParams(<<"a">>, <<>>, page, n, TRUE, FALSE) :
                   page \in 1..2, n \in BOOLEAN}
  /\ max_pages \in 0..MaxPagesArg
  /\ page_result = <<>> /\ current_page = 0 /\ page_calls = <<>>
  /\ pc = "first_page"
  /\ max_attempts = 0 /\ attempts = <<>>
  /\ FallbackIdle /\ SearchIdle /\ KeysIdle /\ FunctionIdle /\ VerifyIdle /\ GuiIdle

\* lines 573-579: the first page; search_with_fallback returns or raises
FirstPage ==
  /\ pc = "first_page"
  /\ \E out \in {<<>>} \cup
                {<<r>> : r \in UNION {PageResults(params, params.page, q) :
                                        q \in FirstPageResolved(params)}} :
       /\ page_calls' = <<PageCall("search_with_fallback", params, PageOutcome(out))>>
       /\ IF out = <<>>
          THEN /\ pc' = "raised"
               /\ error' = Raised("search_with_fallback", 0, FALSE)
               /\ UNCHANGED <<page_result, current_page, returned>>
          ELSE /\ page_result' = out
               /\ IF is_empty(out[1]) \/ ~out[1].has_next
                  THEN /\ pc' = "done"
                       /\ returned' = out
                       /\ UNCHANGED current_page
                  ELSE /\ pc' = "next_page"
                       /\ current_page' = params.page + 1
                       /\ UNCHANGED returned
               /\ UNCHANGED error
  /\ UNCHANGED <<params, max_pages, min_results, max_attempts, cancel_check, raw_query,
                 attempts, idx, best_result, calls, polls, cancelled, progress,
                 svars, kvars, fvars, vvars, gvars>>

\* lines 581-590: one pass of the while loop, or its end and the return
NextPage ==
  /\ pc = "next_page"
  /\ IF current_page <= PageLimit(params, max_pages, page_result[1])
     THEN LET next_params == NextPageParams(params, page_result[1], current_page)
          IN \E out \in {<<>>} \cup
                        {<<r>> : r \in PageResults(next_params, current_page, <<>>)} :
               /\ page_calls' = Append(page_calls,
                                       PageCall("search", next_params, PageOutcome(out)))
               /\ IF out = <<>>
                  THEN /\ pc' = "raised"
                       /\ error' = Raised("search", 0, FALSE)
                       /\ UNCHANGED <<page_result, current_page, returned>>
                  ELSE /\ IF is_empty(out[1])
                          THEN /\ pc' = "done"
                               /\ returned' = page_result
                               /\ UNCHANGED <<page_result, current_page>>
                          ELSE /\ page_result' = <<merge(page_result[1], out[1])>>
                               /\ current_page' = current_page + 1
                               /\ pc' = "next_page"
                               /\ UNCHANGED returned
                       /\ UNCHANGED error
     ELSE /\ pc' = "done"
          /\ returned' = page_result
          /\ UNCHANGED <<page_result, current_page, page_calls, error>>
  /\ UNCHANGED <<params, max_pages, min_results, max_attempts, cancel_check, raw_query,
                 attempts, idx, best_result, calls, polls, cancelled, progress,
                 svars, kvars, fvars, vvars, gvars>>

PagesNext == FirstPage \/ NextPage

PagesSpec == PagesInit /\ [][PagesNext]_vars

\* the loop is a plain sequential loop: a step that can be taken is taken
PagesFairSpec == PagesSpec /\ WF_vars(PagesNext)

(***************************************************************************)
(* SearchResult.sort_by_price applied on its own (search_result.py lines   *)
(* 216-250)                                                                *)
(***************************************************************************)

SortInit ==
  /\ fn_args \in [result : {SearchResult(l, Len(l), 1, <<"a">>) :
                             l \in ItemLists(MaxItems + 1)},
                  ascending : BOOLEAN]
  /\ fn_value = <<>>
  /\ pc = "sort_by_price"
  /\ ServiceIdle

\* result.sort_by_price(ascending): a new SearchResult
SortByPrice ==
  /\ pc = "sort_by_price"
  /\ fn_value' = <<sort_by_price(fn_args.result, fn_args.ascending)>>
  /\ pc' = "sorted_by_price"
  /\ UNCHANGED fn_args
  /\ UNCHANGED <<params, min_results, max_attempts, cancel_check, raw_query, attempts,
                 idx, best_result, calls, polls, cancelled, progress, returned, error,
                 svars, kvars, vvars, pvars, gvars>>

SortNext == SortByPrice

SortSpec == SortInit /\ [][SortNext]_vars

(***************************************************************************)
(* The result cache over time (result_cache.py lines 105-203): puts and    *)
(* gets of one search, and the clock between them                          *)
(***************************************************************************)

\* the search whose entry is written and read
CacheParams == SearchParams(<<"a">>, <<>>, 1, TRUE, FALSE, FALSE)

\* the results put for it: one item, two different totals
CacheResults ==
  { parse_search_result([items |-> <<BoothItem(1, <<0>>)>>, total_count |-> t],
                        CacheParams) : t \in 1..2 }

\* a call of put or get: when it was made, how the storage behaved, and for
\* a get what it returned (<<>> for None) and whether an exception left it
PutEvent(result, at, fault) ==
  [op |-> "put", result |-> <<result>>, at |-> at, fault |-> fault,
   value |-> <<>>, raised |-> fault = "connect"]

GetEvent(value, at, fault, raised) ==
  [op |-> "get", result |-> <<>>, at |-> at, fault |-> fault,
   value |-> value, raised |-> raised]

\* a new cache file (lines 68-88)
CacheInit ==
  /\ result_cache = {}
  /\ effects = <<>>
  /\ clock = 0
  /\ pc = "cache_ops"
  /\ use_cache = TRUE /\ search_result = <<>>
  /\ params = <<>> /\ max_attempts = 0 /\ attempts = <<>>
  /\ has_bs4 = TRUE /\ detail_verify_cache = << >> /\ verified_map = << >>
  /\ verify_idx = 0 /\ verify_log = <<>>
  /\ FallbackIdle /\ KeysIdle /\ FunctionIdle /\ PagesIdle /\ GuiIdle

\* cache.put(params, result)
CachePutOp ==
  /\ pc = "cache_ops"
  /\ Len(effects) < MaxCacheOps
  /\ \E res \in CacheResults, fault \in StorageFaults :
       LET out == ResultCachePut(result_cache, cache_key(CacheParams), res, fault)
       IN /\ result_cache' = out.rows
          /\ effects' = Append(effects, PutEvent(res, clock, fault))
  /\ UNCHANGED <<use_cache, search_result, clock, pc>>
  /\ UNCHANGED <<params, min_results, max_attempts, cancel_check, raw_query, attempts,
                 idx, best_result, calls, polls, cancelled, progress, returned, error,
                 kvars, fvars, pvars, gvars>>
  /\ UNCHANGED <<has_bs4, detail_verify_cache, verified_map, verify_idx, verify_log>>

\* cache.get(params)
CacheGetOp ==
  /\ pc = "cache_ops"
  /\ Len(effects) < MaxCacheOps
  /\ \E fault \in StorageFaults :
       LET out == ResultCacheGet(result_cache, cache_key(CacheParams), fault)
       IN /\ result_cache' = out.rows
          /\ effects' = Append(effects, GetEvent(out.value, clock, fault, out.raised))
  /\ UNCHANGED <<use_cache, search_result, clock, pc>>
  /\ UNCHANGED <<params, min_results, max_attempts, cancel_check, raw_query, attempts,
                 idx, best_result, calls, polls, cancelled, progress, returned, error,
                 kvars, fvars, pvars, gvars>>
  /\ UNCHANGED <<has_bs4, detail_verify_cache, verified_map, verify_idx, verify_log>>

\* time.time() moves on by one unit: every row is older by one
CacheTick ==
  /\ pc = "cache_ops"
  /\ clock < MaxClock
  /\ clock' = clock + 1
  /\ result_cache' = {[row EXCEPT !.age = @ + 1, !.idle = @ + 1] : row \in result_cache}
  /\ UNCHANGED <<use_cache, search_result, effects, pc>>
  /\ UNCHANGED <<params, min_results, max_attempts, cancel_check, raw_query, attempts,
                 idx, best_result, calls, polls, cancelled, progress, returned, error,
                 kvars, fvars, pvars, gvars>>
  /\ UNCHANGED <<has_bs4, detail_verify_cache, verified_map, verify_idx, verify_log>>

CacheNext == CachePutOp \/ CacheGetOp \/ CacheTick

CacheSpec == CacheInit /\ [][CacheNext]_vars

---------------------------------------------------------------------------
(* ImageCache (cache/image_cache.py): a memory cache bounded by            *)
(* memory_max_size over a directory of files.  The operations are taken    *)
(* one after the other, as a single thread calls them.                     *)

\* the longest data of a put
MaxDataSize == 3

\* self.memory_max_size, in bytes
memory_max_size == 2

\* image data of n bytes
Bytes(n) == [i \in 1..n |-> 0]

ImageUrls == {<<>>, <<"a">>, <<"b">>, <<"c">>}

\* no data, one byte, and data larger than the memory cache
ImageData == {Bytes(0), Bytes(1), Bytes(MaxDataSize)}

\* _url_to_key: the first 32 hex digits of the url's SHA-256, a key that
\* differs for the urls of the model
_url_to_key(url) == <<"#">> \o url

\* an entry of _memory_cache, and a file of _disk_dir
CacheEntry(key, data) == [key |-> key, data |-> data]

\* key in self._memory_cache
InMemory(cache, key) == \E i \in DOMAIN cache : cache[i].key = key

\* self._memory_cache[key]
MemoryData(cache, key) ==
  cache[CHOOSE i \in DOMAIN cache : cache[i].key = key].data

\* the file of a key
OnDisk(files, key) == \E f \in files : f.key = key

DiskData(files, key) == (CHOOSE f \in files : f.key = key).data

\* the while loop of _add_to_memory: popitem(last=False) as long as the
\* new data does not fit and the cache is not empty
RECURSIVE EvictOldest(_, _, _)
EvictOldest(cache, total, size) ==
  IF total + size > memory_max_size /\ cache # <<>>
  THEN EvictOldest(Tail(cache), total - Len(Head(cache).data), size)
  ELSE [memory_cache |-> cache, memory_size |-> total]

\* _add_to_memory(key, data)
_add_to_memory(cache, total, key, data) ==
  LET without == SelectSeq(cache, LAMBDA e : e.key # key)
      freed == IF InMemory(cache, key)
               THEN total - Len(MemoryData(cache, key)) ELSE total
      room == EvictOldest(without, freed, Len(data))
  IN [memory_cache |-> Append(room.memory_cache, CacheEntry(key, data)),
      memory_size |-> room.memory_size + Len(data)]

\* the keys of a cache, in its order
KeysOf(cache) == [i \in DOMAIN cache |-> cache[i].key]

\* the order of last use after key was used
Used(order, key) == Append(SelectSeq(order, LAMBDA k : k # key), key)

\* the order of last use of the keys, as the operations so far give it
LastUsed == IF lru_log = <<>> THEN <<>> ELSE lru_log[1].used

\* the record of one operation that leaves the cache as after: the other
\* keys it dropped from memory, in the cache's order, the other keys that
\* were in memory, in the order of their last use, and the order of last
\* use after it
LruEvent(op, key, order, after) ==
  [op |-> op, key |-> key,
   evicted |-> SelectSeq(KeysOf(memory_cache),
                         LAMBDA k : k # key /\ ~InMemory(after, k)),
   others |-> SelectSeq(LastUsed,
                        LAMBDA k : k # key /\ InMemory(memory_cache, k)),
   used |-> order]

\* ImageCache(settings) with an empty cache directory
ImageCacheInit ==
  /\ memory_cache = <<>>
  /\ memory_size = 0
  /\ disk_dir = {}
  /\ lru_log = <<>>
  /\ pc = "image_cache"
  /\ params = <<>> /\ max_attempts = 0 /\ attempts = <<>>
  /\ FallbackIdle /\ SearchIdle /\ KeysIdle /\ FunctionIdle /\ VerifyIdle /\ PagesIdle
  /\ HeapIdle /\ WorkerIdle /\ PoolIdle

\* put(url, data); the write of the file may fail
ImagePut ==
  /\ pc = "image_cache"
  /\ \E url \in ImageUrls, data \in ImageData, written \in BOOLEAN :
       LET key == _url_to_key(url)
           added == _add_to_memory(memory_cache, memory_size, key, data)
       IN IF url = <<>> \/ data = <<>>
          THEN /\ lru_log' = <<LruEvent("put_nothing", key, LastUsed, memory_cache)>>
               /\ UNCHANGED <<memory_cache, memory_size, disk_dir>>
          ELSE /\ memory_cache' = added.memory_cache
               /\ memory_size' = added.memory_size
               /\ disk_dir' = IF written
                              THEN {f \in disk_dir : f.key # key}
                                     \cup {CacheEntry(key, data)}
                              ELSE disk_dir
               /\ lru_log' = <<LruEvent("put", key, Used(LastUsed, key),
                                       added.memory_cache)>>
  /\ UNCHANGED <<servicevars, hvars, wvars, ivars>>

\* get(url); the read of the file may fail
ImageGet ==
  /\ pc = "image_cache"
  /\ \E url \in ImageUrls, readable \in BOOLEAN :
       LET key == _url_to_key(url)
       IN IF url = <<>>
          THEN /\ lru_log' = <<LruEvent("get_nothing", key, LastUsed, memory_cache)>>
               /\ UNCHANGED <<memory_cache, memory_size, disk_dir>>
          ELSE IF InMemory(memory_cache, key)
          THEN /\ memory_cache' =
                    Append(SelectSeq(memory_cache, LAMBDA e : e.key # key),
                           CacheEntry(key, MemoryData(memory_cache, key)))
               /\ lru_log' = <<LruEvent("get", key, Used(LastUsed, key),
                                       memory_cache)>>
               /\ UNCHANGED <<memory_size, disk_dir>>
          ELSE IF OnDisk(disk_dir, key) /\ readable
          THEN LET added == _add_to_memory(memory_cache, memory_size, key,
                                           DiskData(disk_dir, key))
               IN /\ memory_cache' = added.memory_cache
                  /\ memory_size' = added.memory_size
                  /\ lru_log' = <<LruEvent("get", key, Used(LastUsed, key),
                                          added.memory_cache)>>
                  /\ UNCHANGED disk_dir
          ELSE /\ lru_log' = <<LruEvent("get_miss", key, LastUsed, memory_cache)>>
               /\ UNCHANGED <<memory_cache, memory_size, disk_dir>>
  /\ UNCHANGED <<servicevars, hvars, wvars, ivars>>

\* remove(url); the unlink of the file may fail
ImageRemove ==
  /\ pc = "image_cache"
  /\ \E url \in ImageUrls \ {<<>>}, unlinked \in BOOLEAN :
       LET key == _url_to_key(url)
       IN /\ memory_cache' = SelectSeq(memory_cache, LAMBDA e : e.key # key)
          /\ memory_size' = IF InMemory(memory_cache, key)
                            THEN memory_size - Len(MemoryData(memory_cache, key))
                            ELSE memory_size
          /\ disk_dir' = IF unlinked THEN {f \in disk_dir : f.key # key}
                         ELSE disk_dir
          /\ lru_log' = <<LruEvent("remove", key,
                                   SelectSeq(LastUsed, LAMBDA k : k # key),
                                   memory_cache)>>
  /\ UNCHANGED <<servicevars, hvars, wvars, ivars>>

\* clear(); the deletion of the files may fail
ImageClear ==
  /\ pc = "image_cache"
  /\ \E unlinked \in BOOLEAN :
       /\ memory_cache' = <<>>
       /\ memory_size' = 0
       /\ disk_dir' = IF unlinked THEN {} ELSE disk_dir
       /\ lru_log' = <<LruEvent("clear", <<>>, <<>>, <<>>)>>
  /\ UNCHANGED <<servicevars, hvars, wvars, ivars>>

\* clear_memory()
ImageClearMemory ==
  /\ pc = "image_cache"
  /\ memory_cache' = <<>>
  /\ memory_size' = 0
  /\ lru_log' = <<LruEvent("clear_memory", <<>>, <<>>, <<>>)>>
  /\ UNCHANGED disk_dir
  /\ UNCHANGED <<servicevars, hvars, wvars, ivars>>

ImageCacheNext ==
  ImagePut \/ ImageGet \/ ImageRemove \/ ImageClear \/ ImageClearMemory

ImageCacheSpec == ImageCacheInit /\ [][ImageCacheNext]_vars

---------------------------------------------------------------------------
(* ImageLoaderPool (gui/workers/image_pool.py): one thread calls           *)
(* request_image, cancel_request and cancel_all while the threads of the   *)
(* executor run the downloads and their done-callbacks.  The signals the   *)
(* pool emits are not part of its state.                                   *)

\* the tasks submitted to the executor in one run
MaxTasks == 3

\* max_workers of __init__
max_workers == 4

PoolUrls == {<<"a">>, <<"b">>}

\* what a download gives: None, an image, or bytes that are no image
Downloads == {"none", "image", "no_image"}

\* a Future of the executor: state is that of concurrent.futures,
\* callback whether _on_download_complete waits in its callback list,
\* notified whether _on_download_complete has run for it
Task(url, state, data, callback, notified) ==
  [url |-> url, state |-> state, data |-> data, callback |-> callback,
   notified |-> notified]

\* a position of the calling thread
At(at, url, task) == [at |-> at, url |-> url, task |-> task]

PoolIdling == At("idle", <<>>, 0)

\* image_cache.get(url) gives data of which _bytes_to_pixmap makes a pixmap
CachedPixmap(store, url) == [url |-> url, valid |-> TRUE] \in store

\* self._futures without url
WithoutUrl(fs, url) == SelectSeq(fs, LAMBDA f : f.url # url)

\* self._futures[url] = future
Registered(fs, url, task) ==
  IF \E i \in DOMAIN fs : fs[i].url = url
  THEN [i \in DOMAIN fs |-> IF fs[i].url = url
                            THEN [url |-> url, task |-> task] ELSE fs[i]]
  ELSE Append(fs, [url |-> url, task |-> task])

\* the tasks a worker thread is running
Running(ex) == {i \in DOMAIN ex : ex[i].state = "RUNNING"}

\* the first future of the dict that future.cancel() finds queued, 0 if none
FirstQueued(fs, ex) ==
  IF \E i \in DOMAIN fs : ex[fs[i].task].state = "PENDING"
  THEN fs[CHOOSE i \in DOMAIN fs :
            /\ ex[fs[i].task].state = "PENDING"
            /\ \A j \in 1..(i - 1) : ex[fs[j].task].state # "PENDING"].task
  ELSE 0

\* the image cache after _on_download_complete stored the data of a task
Stored(store, task) ==
  IF task.data = "none" THEN store
  ELSE {e \in store : e.url # task.url}
         \cup {[url |-> task.url, valid |-> task.data = "image"]}

\* ImageLoaderPool(settings, image_cache) with an empty image cache
PoolInit ==
  /\ pending_urls = {}
  /\ futures = <<>>
  /\ executor = <<>>
  /\ pool_pc = PoolIdling
  /\ image_store = {}
  /\ pc = "image_pool"
  /\ params = <<>> /\ max_attempts = 0 /\ attempts = <<>>
  /\ FallbackIdle /\ SearchIdle /\ KeysIdle /\ FunctionIdle /\ VerifyIdle /\ PagesIdle
  /\ HeapIdle /\ WorkerIdle /\ ImageCacheIdle

\* request_image(url), lines 103-124: the first section under the mutex
RequestImage ==
  /\ pool_pc = PoolIdling
  /\ \E url \in PoolUrls \cup {<<>>} :
       IF url = <<>> \/ url \in pending_urls \/ CachedPixmap(image_store, url)
       THEN UNCHANGED <<pending_urls, pool_pc>>
       ELSE /\ Len(executor) < MaxTasks
            /\ pending_urls' = pending_urls \cup {url}
            /\ pool_pc' = At("submit", url, 0)
  /\ UNCHANGED <<futures, executor, image_store>>
  /\ UNCHANGED <<servicevars, hvars, wvars, mvars>>

\* request_image, line 127: self._executor.submit(self._download_image, url)
Submit ==
  /\ pool_pc.at = "submit"
  /\ executor' = Append(executor, Task(pool_pc.url, "PENDING", "none", FALSE, FALSE))
  /\ pool_pc' = At("add_done_callback", pool_pc.url, Len(executor) + 1)
  /\ UNCHANGED <<pending_urls, futures, image_store>>
  /\ UNCHANGED <<servicevars, hvars, wvars, mvars>>

\* request_image, line 128: future.add_done_callback; a future that is
\* done already has its callback run at once, by the calling thread
AddDoneCallback ==
  /\ pool_pc.at = "add_done_callback"
  /\ LET task == executor[pool_pc.task]
     IN IF task.state = "FINISHED"
        THEN /\ executor' = [executor EXCEPT ![pool_pc.task].notified = TRUE]
             /\ pending_urls' = pending_urls \ {task.url}
             /\ futures' = WithoutUrl(futures, task.url)
             /\ image_store' = Stored(image_store, task)
        ELSE /\ executor' = [executor EXCEPT ![pool_pc.task].callback = TRUE]
             /\ UNCHANGED <<pending_urls, futures, image_store>>
  /\ pool_pc' = At("register", pool_pc.url, pool_pc.task)
  /\ UNCHANGED <<servicevars, hvars, wvars, mvars>>

\* request_image, lines 130-133: the second section under the mutex
Register ==
  /\ pool_pc.at = "register"
  /\ futures' = Registered(futures, pool_pc.url, pool_pc.task)
  /\ pool_pc' = PoolIdling
  /\ UNCHANGED <<pending_urls, executor, image_store>>
  /\ UNCHANGED <<servicevars, hvars, wvars, mvars>>

\* cancel_request(url).  future.cancel() of a queued future runs its
\* callbacks in the calling thread: _on_download_complete then locks the
\* mutex that cancel_request holds, and QMutex is not recursive
CancelRequest ==
  /\ pool_pc = PoolIdling
  /\ \E url \in PoolUrls :
       IF \E i \in DOMAIN futures : futures[i].url = url
       THEN LET t == futures[CHOOSE i \in DOMAIN futures : futures[i].url = url].task
            IN IF executor[t].state = "PENDING"
               THEN /\ executor' = [executor EXCEPT ![t].state = "CANCELLED"]
                    /\ pool_pc' = At("deadlock", url, t)
                    /\ UNCHANGED <<pending_urls, futures>>
               ELSE IF executor[t].state = "CANCELLED"
               THEN /\ pending_urls' = pending_urls \ {url}
                    /\ futures' = WithoutUrl(futures, url)
                    /\ UNCHANGED <<executor, pool_pc>>
               ELSE UNCHANGED <<pending_urls, futures, executor, pool_pc>>
       ELSE UNCHANGED <<pending_urls, futures, executor, pool_pc>>
  /\ UNCHANGED image_store
  /\ UNCHANGED <<servicevars, hvars, wvars, mvars>>

\* cancel_all(): future.cancel() for every future, then both collections
\* are cleared whatever the calls returned
CancelAll ==
  /\ pool_pc = PoolIdling
  /\ LET t == FirstQueued(futures, executor)
     IN IF t # 0
        THEN /\ executor' = [executor EXCEPT ![t].state = "CANCELLED"]
             /\ pool_pc' = At("deadlock", executor[t].url, t)
             /\ UNCHANGED <<pending_urls, futures>>
        ELSE /\ pending_urls' = {}
             /\ futures' = <<>>
             /\ UNCHANGED <<executor, pool_pc>>
  /\ UNCHANGED image_store
  /\ UNCHANGED <<servicevars, hvars, wvars, mvars>>

\* a worker thread takes the next queued task
StartDownload ==
  /\ Cardinality(Running(executor)) < max_workers
  /\ \E i \in DOMAIN executor :
       /\ executor[i].state = "PENDING"
       /\ \A j \in 1..(i - 1) : executor[j].state # "PENDING"
       /\ executor' = [executor EXCEPT ![i].state = "RUNNING"]
  /\ UNCHANGED <<pending_urls, futures, pool_pc, image_store>>
  /\ UNCHANGED <<servicevars, hvars, wvars, mvars>>

\* _download_image(url) returns in its worker thread
FinishDownload ==
  /\ \E i \in Running(executor), data \in Downloads :
       executor' = [executor EXCEPT ![i].state = "FINISHED", ![i].data = data]
  /\ UNCHANGED <<pending_urls, futures, pool_pc, image_store>>
  /\ UNCHANGED <<servicevars, hvars, wvars, mvars>>

\* _on_download_complete(url, future) in the worker thread of a finished
\* task; it waits for the mutex
OnDownloadComplete ==
  /\ pool_pc.at # "deadlock"
  /\ \E i \in DOMAIN executor :
       /\ executor[i].state = "FINISHED"
       /\ executor[i].callback /\ ~executor[i].notified
       /\ executor' = [executor EXCEPT ![i].notified = TRUE]
       /\ pending_urls' = pending_urls \ {executor[i].url}
       /\ futures' = WithoutUrl(futures, executor[i].url)
       /\ image_store' = Stored(image_store, executor[i])
  /\ UNCHANGED pool_pc
  /\ UNCHANGED <<servicevars, hvars, wvars, mvars>>

PoolNext ==
  \/ RequestImage \/ Submit \/ AddDoneCallback \/ Register
  \/ CancelRequest \/ CancelAll
  \/ StartDownload \/ FinishDownload \/ OnDownloadComplete

PoolSpec == PoolInit /\ [][PoolNext]_vars

---------------------------------------------------------------------------
(* SearchWorker (gui/workers/search_worker.py): one thread calls search()  *)
(* and cancel() while the worker thread executes run().                    *)

\* the runs started in one behaviour
MaxRuns == 3

\* the arguments of search(): the query stands for params
WorkerArgs == [query : {<<"a">>, <<"b">>}, load_all_pages : BOOLEAN]

\* a position of the calling thread in search(), with its arguments
Caller(at, args) == [at |-> at, args |-> args]

CallerIdle == Caller("idle", <<>>)

\* a position of the worker thread in run(): the page that
\* _search_all_pages loads next and the number of its last page
Worker(at, page, total) == [at |-> at, page |-> page, total |-> total]

\* an entry of the log of signals
Emitted(sig, run) == [sig |-> sig, run |-> run]

\* the runs started so far
RunsStarted == Cardinality({i \in DOMAIN signals : signals[i].sig = "start"})

\* search(), lines 101-104, as if a running search were not waited for
AfterIsRunning_without_wait(running) == "set"

\* search(), lines 101-104: a running search is cancelled and waited for
AfterIsRunning(running) == IF running THEN "cancel" ELSE "set"

\* SearchWorker(settings, search_service)
WorkerInit ==
  /\ is_running = FALSE
  /\ cancel_requested = FALSE
  /\ worker_params = <<>>
  /\ worker_pc = Worker("none", 0, 0)
  /\ gui_pc = CallerIdle
  /\ signals = <<>>
  /\ pc = "search_worker"
  /\ params = <<>> /\ max_attempts = 0 /\ attempts = <<>>
  /\ FallbackIdle /\ SearchIdle /\ KeysIdle /\ FunctionIdle /\ VerifyIdle /\ PagesIdle
  /\ HeapIdle /\ PoolIdle /\ ImageCacheIdle

\* QThread.start(): a thread that is running is left alone
StartThread ==
  IF is_running
  THEN UNCHANGED <<is_running, worker_pc, signals>>
  ELSE /\ is_running' = TRUE
       /\ worker_pc' = Worker("run", 0, 0)
       /\ signals' = Append(signals, Emitted("start", RunsStarted + 1))

\* search(params, use_cache, load_all_pages, max_pages) is called
SearchCall ==
  /\ gui_pc = CallerIdle
  /\ RunsStarted < MaxRuns
  /\ \E args \in WorkerArgs : gui_pc' = Caller(AfterIsRunning(is_running), args)
  /\ UNCHANGED <<is_running, cancel_requested, worker_params, worker_pc, signals>>
  /\ UNCHANGED <<servicevars, hvars, ivars, mvars>>

\* search(), line 103: self.cancel()
SearchCancel ==
  /\ gui_pc.at = "cancel"
  /\ cancel_requested' = TRUE
  /\ gui_pc' = Caller("wait", gui_pc.args)
  /\ UNCHANGED <<is_running, worker_params, worker_pc, signals>>
  /\ UNCHANGED <<servicevars, hvars, ivars, mvars>>

\* search(), line 104: self.wait() returns when the thread has finished
SearchWait ==
  /\ gui_pc.at = "wait"
  /\ ~is_running
  /\ gui_pc' = Caller("set", gui_pc.args)
  /\ UNCHANGED <<is_running, cancel_requested, worker_params, worker_pc, signals>>
  /\ UNCHANGED <<servicevars, hvars, ivars, mvars>>

\* search(), lines 107-110
SearchSetParams ==
  /\ gui_pc.at = "set"
  /\ worker_params' = <<gui_pc.args>>
  /\ gui_pc' = Caller("reset", gui_pc.args)
  /\ UNCHANGED <<is_running, cancel_requested, worker_pc, signals>>
  /\ UNCHANGED <<servicevars, hvars, ivars, mvars>>

\* search(), lines 113-114
SearchResetFlag ==
  /\ gui_pc.at = "reset"
  /\ cancel_requested' = FALSE
  /\ gui_pc' = Caller("start", gui_pc.args)
  /\ UNCHANGED <<is_running, worker_params, worker_pc, signals>>
  /\ UNCHANGED <<servicevars, hvars, ivars, mvars>>

\* search(), line 117: self.start()
SearchStart ==
  /\ gui_pc.at = "start"
  /\ StartThread
  /\ gui_pc' = CallerIdle
  /\ UNCHANGED <<cancel_requested, worker_params>>
  /\ UNCHANGED <<servicevars, hvars, ivars, mvars>>

\* the caller starts the thread itself, without search()
DirectStart ==
  /\ gui_pc = CallerIdle
  /\ RunsStarted < MaxRuns
  /\ ~is_running
  /\ StartThread
  /\ UNCHANGED <<cancel_requested, worker_params, gui_pc>>
  /\ UNCHANGED <<servicevars, hvars, ivars, mvars>>

\* cancel() is called
Cancel ==
  /\ gui_pc = CallerIdle
  /\ cancel_requested' = TRUE
  /\ UNCHANGED <<is_running, worker_params, worker_pc, gui_pc, signals>>
  /\ UNCHANGED <<servicevars, hvars, ivars, mvars>>

\* run(), lines 133-143
RunBegin ==
  /\ worker_pc.at = "run"
  /\ IF worker_params = <<>>
     THEN /\ signals' = Append(signals, Emitted("error", RunsStarted))
          /\ worker_pc' = Worker("return", 0, 0)
     ELSE /\ worker_pc' = Worker("check", 0, 0)
          /\ UNCHANGED signals
  /\ UNCHANGED <<is_running, cancel_requested, worker_params, gui_pc>>
  /\ UNCHANGED <<servicevars, hvars, ivars, mvars>>

\* run(), lines 148-151
RunCheckBefore ==
  /\ worker_pc.at = "check"
  /\ IF cancel_requested
     THEN /\ signals' = Append(signals, Emitted("cancelled", RunsStarted))
          /\ worker_pc' = Worker("return", 0, 0)
     ELSE /\ worker_pc' = Worker("search", 0, 0)
          /\ UNCHANGED signals
  /\ UNCHANGED <<is_running, cancel_requested, worker_params, gui_pc>>
  /\ UNCHANGED <<servicevars, hvars, ivars, mvars>>

\* run(), lines 154-157, with the first search of _search_all_pages (lines
\* 204-215) or the search of _search_single_page: it raises, or gives the
\* result, or a result that other pages follow
RunSearch ==
  /\ worker_pc.at = "search"
  /\ \E outcome \in {"BoothSearcherError", "Exception", "result", "has_next"},
        total \in 2..MaxPagesArg :
       worker_pc' =
         IF outcome = "has_next" /\ worker_params[1].load_all_pages
         THEN Worker("pages", 2, total)
         ELSE IF outcome \in {"result", "has_next"}
         THEN Worker("check_after", 0, 0)
         ELSE Worker(outcome, 0, 0)
  /\ UNCHANGED <<is_running, cancel_requested, worker_params, gui_pc, signals>>
  /\ UNCHANGED <<servicevars, hvars, ivars, mvars>>

\* _search_all_pages, lines 219-246: one turn of the loop
RunNextPage ==
  /\ worker_pc.at = "pages"
  /\ IF worker_pc.page > worker_pc.total \/ cancel_requested
     THEN worker_pc' = Worker("check_after", 0, 0)
     ELSE \E outcome \in {"BoothSearcherError", "Exception", "empty", "merged"} :
            worker_pc' =
              IF outcome = "merged"
              THEN Worker("pages", worker_pc.page + 1, worker_pc.total)
              ELSE IF outcome = "empty" THEN Worker("check_after", 0, 0)
              ELSE Worker(outcome, 0, 0)
  /\ UNCHANGED <<is_running, cancel_requested, worker_params, gui_pc, signals>>
  /\ UNCHANGED <<servicevars, hvars, ivars, mvars>>

\* run(), lines 160-167
RunCheckAfter ==
  /\ worker_pc.at = "check_after"
  /\ signals' = Append(signals,
                       Emitted(IF cancel_requested THEN "cancelled"
                               ELSE "result_ready", RunsStarted))
  /\ worker_pc' = Worker("return", 0, 0)
  /\ UNCHANGED <<is_running, cancel_requested, worker_params, gui_pc>>
  /\ UNCHANGED <<servicevars, hvars, ivars, mvars>>

\* run(), lines 174-186: the two except clauses
RunExcept ==
  /\ worker_pc.at \in {"BoothSearcherError", "Exception"}
  /\ signals' = Append(signals,
                       Emitted(IF cancel_requested THEN "cancelled" ELSE "error",
                               RunsStarted))
  /\ worker_pc' = Worker("return", 0, 0)
  /\ UNCHANGED <<is_running, cancel_requested, worker_params, gui_pc>>
  /\ UNCHANGED <<servicevars, hvars, ivars, mvars>>

\* run() returns and the thread finishes
RunReturn ==
  /\ worker_pc.at = "return"
  /\ is_running' = FALSE
  /\ worker_pc' = Worker("none", 0, 0)
  /\ UNCHANGED <<cancel_requested, worker_params, gui_pc, signals>>
  /\ UNCHANGED <<servicevars, hvars, ivars, mvars>>

WorkerNext ==
  \/ SearchCall \/ SearchCancel \/ SearchWait \/ SearchSetParams
  \/ SearchResetFlag \/ SearchStart \/ DirectStart \/ Cancel
  \/ RunBegin \/ RunCheckBefore \/ RunSearch \/ RunNextPage
  \/ RunCheckAfter \/ RunExcept \/ RunReturn

WorkerSpec == WorkerInit /\ [][WorkerNext]_vars

---------------------------------------------------------------------------
(* SearchResult objects by reference: what search, search_with_fallback    *)
(* and search_all_pages (core/search_service.py) create, change in place   *)
(* and return.  The service keeps no reference to a result: the result     *)
(* cache stores rows of text and rebuilds a result from them.              *)

\* the SearchResult objects created in one behaviour
MaxObjects == 4

\* a BoothItem, frozen: verified_in_description is no field of it
HeapItem(id) == [id |-> id, verified_in_description |-> "no_field"]

HeapItemLists == {<<>>, <<HeapItem(1)>>, <<HeapItem(1), HeapItem(2)>>}

\* a SearchResult object: its item list and the fields that
\* _apply_attempt_metadata sets
ResultObject(items, label) == [items |-> items, attempt_label |-> label]

\* a result at the moment it is returned
ReturnedResult(ref, h) == [ref |-> ref, items |-> h[ref].items]

\* the labels of the attempts, in order
AttemptLabels == <<"A", "B">>

\* _verify_top_items, lines 497-502, as if line 499 did not raise: the
\* result's item list is replaced by the updated items
VerifyUpdate_assigning(items, any_verified) ==
  [raised |-> FALSE,
   items |-> IF any_verified
             THEN [i \in DOMAIN items |->
                     [items[i] EXCEPT !.verified_in_description = "True"]]
             ELSE items]

\* _verify_top_items, lines 494-503: with an empty verified_map the result
\* is returned as it is; otherwise line 499 reads item.verified_in_description
\* of a BoothItem and raises before line 502 assigns result.items
VerifyUpdate(items, any_verified) == [raised |-> any_verified, items |-> items]

\* search_with_fallback on heap h with returned results hd: every attempt's
\* search() returns a new object, which _apply_attempt_metadata changes in
\* place; _verify_top_items works on the object chosen as best and the same
\* object is returned
FallbackCall(h, hd, lists, best, any_verified) ==
  LET n == Len(lists)
      h1 == h \o [i \in 1..n |-> ResultObject(lists[i], AttemptLabels[i])]
      hd1 == hd \o [i \in 1..n |->
                      [ref |-> Len(h) + i, items |-> lists[i]]]
      ref == Len(h) + best
      eff == VerifyUpdate(h1[ref].items, any_verified /\ h1[ref].items # <<>>)
      h2 == [h1 EXCEPT ![ref].items = eff.items]
  IN [heap |-> h2,
      handed |-> IF eff.raised THEN hd1 ELSE Append(hd1, ReturnedResult(ref, h2)),
      raised |-> eff.raised,
      ref |-> ref]

\* a SearchService that has returned nothing yet
HeapInit ==
  /\ heap = <<>>
  /\ handed = <<>>
  /\ pc = "results"
  /\ params = <<>> /\ max_attempts = 0 /\ attempts = <<>>
  /\ FallbackIdle /\ SearchIdle /\ KeysIdle /\ FunctionIdle /\ VerifyIdle /\ PagesIdle
  /\ WorkerIdle /\ PoolIdle /\ ImageCacheIdle

\* search(params, use_cache): the result is a new object, from the cache
\* row or from the parser and the filters; scoring raises for a non-empty
\* parsed result under the relevance sort
HeapSearch ==
  /\ Len(heap) < MaxObjects
  /\ \E items \in HeapItemLists, hit \in BOOLEAN, relevance \in BOOLEAN :
       LET h1 == Append(heap, ResultObject(items, ""))
       IN /\ heap' = h1
          /\ handed' = IF ~hit /\ relevance /\ items # <<>> THEN handed
                       ELSE Append(handed, ReturnedResult(Len(h1), h1))
  /\ UNCHANGED <<servicevars, wvars, ivars, mvars>>

\* search_with_fallback(params, ...) with one or two attempts
HeapFallback ==
  /\ \E n \in 1..2 :
       /\ Len(heap) + n <= MaxObjects
       /\ \E lists \in [1..n -> HeapItemLists], best \in 1..n,
             any_verified \in BOOLEAN :
            LET out == FallbackCall(heap, handed, lists, best, any_verified)
            IN heap' = out.heap /\ handed' = out.handed
  /\ UNCHANGED <<servicevars, wvars, ivars, mvars>>

\* search_all_pages(params, max_pages): the result of search_with_fallback,
\* or the new object of its merge with the result of one more search()
HeapAllPages ==
  /\ Len(heap) + 1 <= MaxObjects
  /\ \E first \in HeapItemLists, any_verified \in BOOLEAN, more \in BOOLEAN :
       LET out == FallbackCall(heap, handed, <<first>>, 1, any_verified)
       IN IF out.raised \/ ~more \/ first = <<>>
          THEN /\ heap' = out.heap
               /\ handed' = IF out.raised THEN out.handed
                            ELSE Append(out.handed,
                                        ReturnedResult(out.ref, out.heap))
          ELSE /\ Len(heap) + 3 <= MaxObjects
               /\ \E next \in HeapItemLists :
                    LET h1 == Append(out.heap, ResultObject(next, ""))
                        hd1 == Append(out.handed, ReturnedResult(Len(h1), h1))
                        h2 == Append(h1, ResultObject(
                                           out.heap[out.ref].items \o next,
                                           out.heap[out.ref].attempt_label))
                    IN IF next = <<>>
                       THEN /\ heap' = h1
                            /\ handed' = Append(hd1,
                                                ReturnedResult(out.ref, h1))
                       ELSE /\ heap' = h2
                            /\ handed' = Append(hd1,
                                                ReturnedResult(Len(h2), h2))
  /\ UNCHANGED <<servicevars, wvars, ivars, mvars>>

HeapNext == HeapSearch \/ HeapFallback \/ HeapAllPages

HeapSpec == HeapInit /\ [][HeapNext]_vars

---------------------------------------------------------------------------
(* Properties of search_with_fallback                                      *)

\* the call went through the attempt loop (a non-empty plan was built)
InLoopPath == attempts # <<>>

\* score of a searched page: total_count if > 0, else the number of items
ScoreOf(c) == IF c.total_count > 0 THEN c.total_count ELSE c.n_items

\* a searched page is sufficient: non-empty and score >= min_results
Sufficient(c) == c.n_items > 0 /\ ScoreOf(c) >= min_results

LoopOver == pc \in {"after_loop", "done", "raised"}

\* C1: the attempt loop stops right after the first attempt whose result is
\* non-empty with score >= min_results: every search before the last one was
\* insufficient, and after a sufficient search the loop is over.
C1_StopsAtFirstSufficient ==
  InLoopPath =>
    /\ \A j \in 1..(Len(calls) - 1) : ~Sufficient(calls[j])
    /\ (Len(calls) >= 1 /\ Sufficient(calls[Len(calls)])) => LoopOver

\* the second of three planned attempts was sufficient and the third was
\* never searched
C1_Witness ==
  /\ pc = "done" /\ Len(attempts) = 3 /\ Len(calls) = 2
  /\ ~Sufficient(calls[1]) /\ Sufficient(calls[2])
  /\ ScoreOf(calls[2]) = min_results

\* C2: cancel_check is polled exactly once before each attempt's search; when
\* the k-th poll is the first to return true, k-1 searches were made and no
\* further attempt is searched.
C2_PollBeforeEachSearch ==
  (InLoopPath /\ cancel_check) =>
    /\ pc = "search" => (polls = Len(calls) + 1 /\ ~cancelled)
    /\ pc = "loop" => polls = Len(calls)
    /\ polls \in {Len(calls), Len(calls) + 1}
    /\ cancelled => (polls = Len(calls) + 1 /\ LoopOver)

\* the case of the test: the second poll cancels after one empty search
C2_Witness ==
  /\ pc = "done" /\ cancel_check /\ cancelled
  /\ polls = 2 /\ Len(calls) = 1 /\ calls[1].n_items = 0 /\ calls[1].total_count = 0
  /\ Len(attempts) >= 2

\* C3: with max_attempts >= 1 a call performs at most max_attempts searches.
C3_AtMostMaxAttempts ==
  max_attempts >= 1 => Len(calls) <= max_attempts

\* the cap was reached although the uncapped plan holds a further candidate
C3_Witness ==
  /\ pc = "done" /\ max_attempts >= 1 /\ Len(calls) = max_attempts
  /\ Len(_build_attempts(raw_query, params.normalization_enabled,
                         params.allow_multi, max_attempts + 1)) > max_attempts

\* C4: when the raw query differs from its normalized form, the raw query is
\* searched verbatim first, then its normalized form, then the alias
\* canonical name of the normalized form.
C4_RawThenNormalizedThenAlias ==
  (InLoopPath /\ ~params.allow_multi /\ raw_query = Strip(raw_query)
     /\ raw_query # normalize_query(raw_query)) =>
    /\ Len(calls) >= 1 => calls[1].avatar_name = raw_query
    /\ Len(calls) >= 2 => calls[2].avatar_name = normalize_query(raw_query)
    /\ (Len(calls) >= 3 /\ AliasGet(normalize_query(raw_query)) # <<>>)
         => calls[3].avatar_name = AliasGet(normalize_query(raw_query))

\* C5: attempts_count of the returned result is the number of searches the
\* attempt loop performed.
C5_AttemptsCountIsSearches ==
  (pc = "done" /\ InLoopPath /\ Len(calls) >= 1) =>
    returned[1].attempts_count = Len(calls)

\* C6: a returned result produced by the normalized form of the raw query has
\* used_strategy "normalized"; used_strategy is "original" only when the raw
\* query itself produced the returned result.
C6_UsedStrategyNormalized ==
  (pc = "done" /\ InLoopPath /\ Len(calls) >= 1
     /\ raw_query # normalize_query(raw_query)) =>
    /\ returned[1].resolved_query = normalize_query(raw_query)
         => returned[1].used_strategy = "normalized"
    /\ returned[1].used_strategy = "original"
         => returned[1].resolved_query = raw_query

\* the returned result is the one of the j-th search of the loop
ReturnedIsCall(j) ==
  /\ returned[1].resolved_query = calls[j].avatar_name
  /\ returned[1].query = calls[j].avatar_name
  /\ returned[1].attempt_label = attempts[j].label
  /\ Len(returned[1].items) = calls[j].n_items
  /\ returned[1].total_count = calls[j].total_count

\* C7: the returned result is the one of the earliest searched attempt whose
\* score is maximal among the searched attempts.
C7_EarliestMaximal ==
  (pc = "done" /\ InLoopPath /\ Len(calls) >= 1) =>
    \E j \in 1..Len(calls) :
      /\ ReturnedIsCall(j)
      /\ \A k \in 1..Len(calls) : ScoreOf(calls[k]) <= ScoreOf(calls[j])
      /\ \A k \in 1..(j - 1) : ScoreOf(calls[k]) < ScoreOf(calls[j])

\* two searched attempts tie on a positive score and the first is returned
C7_Witness ==
  /\ pc = "done" /\ InLoopPath /\ Len(calls) >= 2
  /\ ScoreOf(calls[1]) > 0
  /\ ScoreOf(calls[2]) = ScoreOf(calls[1])
  /\ calls[2].n_items > 0 /\ calls[1].n_items > 0
  /\ ReturnedIsCall(1)

\* C8: the queries searched are a prefix of the plan, in plan order, and the
\* search of an attempt starts only when all searches before it returned.
C8_PrefixOfPlan ==
  InLoopPath =>
    /\ Len(calls) <= Len(attempts)
    /\ \A j \in 1..Len(calls) : calls[j].avatar_name = attempts[j].query
    /\ pc \in {"loop", "search"} => idx = Len(calls) + 1

\* a three-attempt plan of which exactly the first two were searched
C8_Witness ==
  /\ pc = "done" /\ Len(attempts) = 3 /\ Len(calls) = 2
  /\ calls[1].avatar_name = attempts[1].query
  /\ calls[2].avatar_name = attempts[2].query
  /\ attempts[2].label = "B" /\ attempts[3].label = "C"

\* C9: for page # 1 or normalization disabled there is exactly one search,
\* with the params as given, no plan, no alternate query, and its result is
\* what the call returns.
C9_DirectSearchOnly ==
  (params.page # 1 \/ ~params.normalization_enabled) =>
    /\ attempts = <<>> /\ polls = 0 /\ progress = <<>>
    /\ Len(calls) <= 1
    /\ pc = "done" =>
         /\ Len(calls) = 1
         /\ calls[1].avatar_name = params.avatar_name
         /\ calls[1].page = params.page
         /\ Len(returned[1].items) = calls[1].n_items
         /\ returned[1].total_count = calls[1].total_count
         /\ returned[1].query = params.avatar_name
         /\ returned[1].resolved_query = <<>>
         /\ returned[1].raw_query = <<>>

\* a page-2 call whose raw query would plan several attempts returned the
\* page found for the avatar name
C9_Witness ==
  /\ pc = "done" /\ params.page = 2 /\ params.normalization_enabled
  /\ params.raw_query # params.avatar_name
  /\ Len(_build_attempts(params.raw_query, TRUE, params.allow_multi, max_attempts)) >= 2
  /\ Len(calls) = 1 /\ Len(returned[1].items) > 0

\* the result is empty and tagged "A" with the original avatar name
EmptyTaggedA ==
  /\ returned[1].items = <<>>
  /\ returned[1].attempt_label = "A"
  /\ returned[1].resolved_query = params.avatar_name

\* C10 as stated: with an empty plan, or when no attempt produced a result,
\* the call returns an empty result tagged "A" with resolved_query equal to
\* the original avatar name.
C10_EmptyPlanGivesEmptyResult ==
  (pc = "done" /\ ResolutionApplies(params) /\ (attempts = <<>> \/ Len(calls) = 0))
    => EmptyTaggedA

\* C10 amended: when the plan is non-empty and no attempt was searched, the
\* call returns an empty result tagged "A" with resolved_query equal to the
\* original avatar name; when the plan is empty it makes one direct search
\* with the params as given and returns that search's result.
C10_EmptyDefaultOrDirect ==
  (pc = "done" /\ ResolutionApplies(params)) =>
    /\ (attempts # <<>> /\ Len(calls) = 0) =>
         (EmptyTaggedA /\ returned[1].total_count = 0
            /\ returned[1].raw_query = raw_query)
    /\ attempts = <<>> =>
         /\ Len(calls) = 1
         /\ calls[1].avatar_name = params.avatar_name
         /\ Len(returned[1].items) = calls[1].n_items
         /\ returned[1].total_count = calls[1].total_count
         /\ returned[1].resolved_query = <<>>

\* cancelled at the first poll of a non-empty plan whose queries all differ
\* from the avatar name
C10_Witness ==
  /\ pc = "done" /\ ResolutionApplies(params)
  /\ attempts # <<>> /\ Len(calls) = 0 /\ cancelled
  /\ raw_query # params.avatar_name
  /\ returned[1].resolved_query = params.avatar_name

\* C11: a cancellation never makes search_with_fallback raise: once
\* cancel_check has answered true no exception leaves the call, and a call
\* cancelled in the attempt loop returns the best result of the attempts
\* searched before, or, when none was searched, the empty result tagged "A"
\* with resolved_query = params.avatar_name.
C11_CancellationNeverRaises ==
  /\ cancelled => pc # "raised"
  /\ error # <<>> => ~error[1].after_cancel
  /\ (pc = "done" /\ cancelled) =>
       IF Len(calls) = 0
       THEN EmptyTaggedA
       ELSE \E j \in 1..Len(calls) :
              /\ ReturnedIsCall(j)
              /\ \A k \in 1..Len(calls) : ScoreOf(calls[k]) <= ScoreOf(calls[j])

\* C12: an exception raised by the search of attempt i leaves
\* search_with_fallback: the call has ended without a result, the attempts
\* before i are the only ones searched, and attempt i was not searched again.
C12_SearchErrorPropagates ==
  (error # <<>> /\ error[1].source = "search") =>
    /\ pc = "raised"
    /\ returned = <<>>
    /\ InLoopPath =>
         /\ error[1].attempt = idx
         /\ Len(calls) = idx - 1
         /\ \A j \in 1..Len(calls) : calls[j].avatar_name = attempts[j].query

\* the search of the second of three attempts raised after the first had
\* produced a non-empty best result, and nothing was returned
C12_Witness ==
  /\ pc = "raised" /\ error # <<>> /\ error[1].source = "search"
  /\ error[1].attempt = 2 /\ Len(attempts) = 3 /\ Len(calls) = 1
  /\ best_result # <<>> /\ ~is_empty(best_result[1])
  /\ returned = <<>>

---------------------------------------------------------------------------
(* Properties of the attempt planner                                       *)

Planned == pc = "planned"

LabelAt(label) == {i \in 1..Len(attempts) : attempts[i].label = label}

\* C13: the plan has at most max_attempts attempts, and it is empty whenever
\* max_attempts <= 0, negative values included.
C13_PlanWithinCap ==
  Planned =>
    /\ max_attempts > 0 => Len(attempts) <= max_attempts
    /\ max_attempts <= 0 => attempts = <<>>

\* the normalized form of a part of the raw query, as the planner takes it
PartQuery(part) ==
  IF params.normalization_enabled THEN normalize_query(Strip(part)) ELSE Strip(part)

\* the first candidate in input order: the first part of the raw query that
\* leaves a query (deduplication keeps first occurrences, so it stays first)
FirstCandidateQuery ==
  LET split == IF params.allow_multi THEN split_multi_query(params.raw_query)
               ELSE <<params.raw_query>>
      parts == IF split = <<>> THEN <<params.raw_query>> ELSE split
      usable == SelectSeq(parts, LAMBDA part : PartQuery(part) # <<>>)
  IN IF usable = <<>> THEN PartQuery(params.raw_query) ELSE PartQuery(usable[1])

AlreadyQuoted(query) ==
  query # <<>> /\ Head(query) = "\"" /\ query[Len(query)] = "\""

\* the query without its spaces
SpaceRemoved(query) == SelectSeq(query, LAMBDA ch : ch \notin Whitespace)

\* C15: Attempt B is derived from Attempt A's query only: when that query
\* contains a space B is its space-removed form, otherwise B is the query in
\* double quotes, and there is no B when a query without a space already
\* starts and ends with a double quote.  A plan has at most one B; it is the
\* second attempt, and it is there whenever the plan goes beyond Attempt A.
C15_AttemptB ==
  (Planned /\ attempts # <<>>) =>
    LET a == attempts[1].query
        no_b == ~Contains(a, " ") /\ AlreadyQuoted(a)
    IN /\ Cardinality(LabelAt("B")) <= 1
       /\ LabelAt("B") \subseteq {2}
       /\ \A i \in LabelAt("B") :
            attempts[i].query = IF Contains(a, " ") THEN SpaceRemoved(a)
                                ELSE <<"\"">> \o a \o <<"\"">>
       /\ no_b => LabelAt("B") = {}
       /\ (~no_b /\ Len(attempts) >= 2) => LabelAt("B") = {2}

\* the query of Attempt A is a lone double quote from a multi-query input:
\* the plan has no B and goes on with the next candidate
C15_Witness ==
  /\ Planned /\ Len(attempts) >= 2 /\ AlreadyQuoted(attempts[1].query)
  /\ ~Contains(attempts[1].query, " ") /\ LabelAt("B") = {}
  /\ attempts[2].label = "A"

\* the alias map gives Attempt A's query a canonical name other than itself
AliasApplies ==
  /\ params.normalization_enabled
  /\ AliasGet(normalize_query(attempts[1].query)) # <<>>
  /\ AliasGet(normalize_query(attempts[1].query)) # attempts[1].query

\* C16 as stated: the plan has a C attempt exactly when normalization is
\* enabled and the alias map maps the normalized form of Attempt A's query to
\* a canonical name different from that query; its query is that name.
C16_AliasAttemptExactly ==
  (Planned /\ attempts # <<>>) =>
    /\ (LabelAt("C") # {}) <=> AliasApplies
    /\ \A i \in LabelAt("C") :
         attempts[i].query = AliasGet(normalize_query(attempts[1].query))

\* C16 amended: the plan has a C attempt only when normalization is enabled
\* and the alias map maps the normalized form of Attempt A's query to a
\* canonical name different from that query, and its query is that name;
\* when both hold the C attempt is in the plan unless the canonical name is
\* already the query of Attempt B or the cut to max_attempts ends the plan
\* before it.
C16_AliasAttemptUnlessCut ==
  (Planned /\ attempts # <<>>) =>
    LET canonical == AliasGet(normalize_query(attempts[1].query))
        duplicate == \E i \in LabelAt("B") : attempts[i].query = canonical
        cut == /\ max_attempts < 0 \/ Len(attempts) = max_attempts
               /\ LabelAt("A") = {1}
    IN /\ LabelAt("C") # {} => AliasApplies
       /\ \A i \in LabelAt("C") : attempts[i].query = canonical
       /\ Cardinality(LabelAt("C")) <= 1
       /\ (AliasApplies /\ LabelAt("C") = {}) => (duplicate \/ cut)

\* an aliased query whose plan is A, B, C with C the canonical name
C16_Witness ==
  /\ Planned /\ Len(attempts) = 3 /\ AliasApplies
  /\ attempts[2].label = "B" /\ attempts[3].label = "C"
  /\ attempts[3].query = AliasGet(normalize_query(attempts[1].query))
  /\ attempts[3].query # attempts[2].query

---------------------------------------------------------------------------
(* Properties of search() and the result cache                             *)

\* the steps search() has performed include the given one
Did(step) == \E k \in 1..Len(effects) : effects[k] = step

\* the rows of this search's key that have not expired
LiveRows ==
  {row \in result_cache : row.key = cache_key(params) /\ row.age <= TtlSeconds}

CacheHit == effects # <<>> /\ effects[1] = "cache_hit"

\* the entries a cache holds, whenever they were last read
StoredEntries(rows) == {CacheRow(row.key, row.data, row.age) : row \in rows}

\* C17: with use_cache and a live cache entry for params.cache_key(), the
\* lookup is a hit, and a hit performs no page fetch, no parse, no relevance
\* scoring and no cache write (no put: every entry keeps its data and its
\* creation time, the hit only stamps the access time of the row it read):
\* the call returns the cached result with only the client-side price
\* filters and price sort applied.
C17_CacheHitOnlyFilters ==
  /\ CacheHit =>
       /\ use_cache /\ pc = "done"
       /\ effects = <<"cache_hit", "filter">>
       /\ search_result = <<>>
       /\ StoredEntries(result_cache) \in InitialCaches(params)
       /\ \E row \in LiveRows :
            returned[1] = _apply_client_side_filters(
                            from_dict(row.data, TRUE, row.age), params)
  /\ (use_cache /\ effects # <<>> /\ effects[1] = "cache_miss" /\ ~Did("cache_put"))
       => LiveRows = {}

\* a hit on a two-item row whose items the price sort reorders and the price
\* filter leaves alone
C17_Witness ==
  /\ CacheHit /\ pc = "done"
  /\ \E row \in LiveRows :
       /\ Len(row.data.items) = 2 /\ Len(returned[1].items) = 2
       /\ returned[1].items # row.data.items
       /\ returned[1].cached

\* search() called cache.put
PutCalled == Did("cache_put") \/ Did("cache_put_error")

\* C18: on a cache miss search() writes to the cache exactly when use_cache
\* is true and the parsed result has at least one item, the value written is
\* the scored result before the client-side filters, and with use_cache
\* false the cache is neither read nor written.
C18_WriteIffNonEmptyMiss ==
  /\ ~use_cache =>
       /\ result_cache \in InitialCaches(params)
       /\ \A k \in 1..Len(effects) : effects[k] \in {"fetch", "parse", "score", "filter"}
  /\ (search_result # <<>> /\ pc \in {"filter", "done", "raised"}) =>
       (PutCalled <=> (use_cache /\ ~is_empty(search_result[1])))
  /\ Did("cache_put") =>
       \E row \in LiveRows : row.age = 0 /\ row.data = to_dict(search_result[1])

\* a failing cache read is followed by the live fetch
ReadFailureIsMiss ==
  (effects # <<>> /\ effects[1] = "cache_error" /\ pc = "done") => Did("fetch")

\* C19: a storage failure of the result cache is never fatal to search(): no
\* exception of a cache read or write leaves the call, a failing read is a
\* miss followed by the live fetch, and after a failing write the freshly
\* fetched result is returned.
C19_CacheFailureNotFatal ==
  /\ error # <<>> => error[1].source \notin {"cache_get", "cache_put"}
  /\ ReadFailureIsMiss
  /\ (pc = "done" /\ Did("cache_put_error")) =>
       returned[1] = _apply_client_side_filters(search_result[1], params)

---------------------------------------------------------------------------
(* Properties of cache_key                                                 *)

\* the two params agree on avatar name, category, sort order, price range
\* and page number
SameKeyFields ==
  /\ params.avatar_name = params2.avatar_name
  /\ params.category = params2.category
  /\ params.sort = params2.sort
  /\ params.price_range = params2.price_range
  /\ params.page = params2.page

---------------------------------------------------------------------------
(* Properties of SearchResult.merge                                        *)

\* the fields of a result that say how its query was resolved
Provenance(res) ==
  <<res.raw_query, res.resolved_query, res.attempt_label, res.attempt_description,
    res.correction_applied, res.used_strategy, res.attempts_count>>

\* the paging fields of a result
Paging(res) == <<res.total_count, res.current_page, res.total_pages, res.has_next>>

\* C27: R1.merge(R2) has R1's items followed by R2's items, takes
\* total_count, current_page, total_pages and has_next from R2, keeps R1's
\* query and resolution provenance, and leaves R1 and R2 as they were.
C27_MergeConcatenates ==
  /\ [](pc = "merged" =>
          LET merged == fn_value[1]
              R1 == fn_args[1]
              R2 == fn_args[2]
          IN /\ merged.items = R1.items \o R2.items
             /\ Len(merged.items) = Len(R1.items) + Len(R2.items)
             /\ Paging(merged) = Paging(R2)
             /\ merged.query = R1.query
             /\ Provenance(merged) = Provenance(R1))
  /\ [][pc = "merge" => fn_args' = fn_args]_vars

\* a merge of two non-empty pages that differ in their paging fields and in
\* every provenance field
C27_Witness ==
  /\ pc = "merged"
  /\ fn_args[1].items # <<>> /\ fn_args[2].items # <<>>
  /\ Len(fn_args[1].items) # Len(fn_args[2].items)
  /\ \A k \in 1..4 : Paging(fn_args[1])[k] # Paging(fn_args[2])[k]
  /\ \A k \in 1..7 : Provenance(fn_args[1])[k] # Provenance(fn_args[2])[k]
  /\ fn_value[1].current_page = fn_args[2].current_page

---------------------------------------------------------------------------
(* Properties of the query normalization                                   *)

\* C28: normalize_query is idempotent, in both modules that define it: for
\* every string x, the empty string and None included,
\* normalize_query(normalize_query(x)) = normalize_query(x).
C28_NormalizeIdempotent ==
  pc = "normalized" =>
    /\ fn_value.twice = fn_value.once
    /\ fn_value.twice2 = fn_value.once2

\* a string holding only a vertical comma and full-width whitespace, which
\* the first normalization changes
C28_Witness ==
  /\ pc = "normalized"
  /\ ~fn_args.is_none
  /\ \E k \in 1..Len(fn_args.text) : fn_args.text[k] = "v_comma"
  /\ \A k \in 1..Len(fn_args.text) : fn_args.text[k] \in {"v_comma", "fw_sp", "mid_dot"}
  /\ Len(fn_args.text) = MaxLen + 1
  /\ fn_value.once = <<",">>
  /\ fn_value.twice = fn_value.once

---------------------------------------------------------------------------
(* Properties of the multi-query splitters                                 *)

\* the pieces of the text between separators, trimmed, without the empty ones
TrimmedPieces(text) ==
  LET pieces == ReSplit(text, <<>>, FALSE)
  IN {Strip(pieces[k]) : k \in 1..Len(pieces)} \ {<<>>}

\* the position of the first piece of the text that trims to the part
FirstPiece(text, part) ==
  LET pieces == ReSplit(text, <<>>, FALSE)
  IN CHOOSE k \in 1..Len(pieces) :
       Strip(pieces[k]) = part /\ \A j \in 1..(k - 1) : Strip(pieces[j]) # part

\* parts is the text split on the separators, each part trimmed, the empty
\* parts dropped and every duplicate after the first occurrence removed
IsSplitOf(parts, text) ==
  /\ {parts[k] : k \in 1..Len(parts)} = TrimmedPieces(text)
  /\ \A j, k \in 1..Len(parts) : j < k => parts[j] # parts[k]
  /\ \A j, k \in 1..Len(parts) :
       j < k => FirstPiece(text, parts[j]) < FirstPiece(text, parts[k])

\* C29: split_multi_query and parse_multi_query return the input split on
\* comma, semicolon, slash, pipe and newline, each part trimmed, empty parts
\* dropped, and exact duplicates removed keeping the first occurrence.
C29_SplitTrimsAndDedups ==
  pc = "split_done" =>
    /\ IsSplitOf(fn_value.parse_multi_query, fn_args.text)
    /\ IsSplitOf(fn_value.split_multi_query, fn_args.text)

---------------------------------------------------------------------------
(* Properties of build_alias_map                                           *)

\* the keys entry k of the dataset registers: its normalized canonical name
\* and its normalized variants, without the empty key
KeysOfEntry(k) ==
  LET entry == fn_args[k]
  IN ({normalize_query(entry.canonical)}
      \cup {normalize_query(entry.variants[j]) : j \in 1..Len(entry.variants)})
     \ {<<>>}

\* the canonical name of entry k is blank
BlankEntry(k) == Strip(fn_args[k].canonical) = <<>>

\* the map holds exactly the keys of the given entries, and each key points
\* to the canonical name of the earliest of them that has it
FirstEntryWins(alias_map, entries) ==
  /\ DOMAIN alias_map = UNION {KeysOfEntry(k) : k \in entries}
  /\ \A key \in DOMAIN alias_map :
       \E k \in entries :
         /\ key \in KeysOfEntry(k)
         /\ \A j \in entries : j < k => key \notin KeysOfEntry(j)
         /\ alias_map[key] = Strip(fn_args[k].canonical)

\* C30: build_alias_map registers for each canonical name, in dataset order,
\* the normalized canonical name and each normalized variant as keys of that
\* canonical name; the first registration of a key wins, so every key points
\* to the earliest entry that has it.
C30_FirstRegistrationWinsAll ==
  pc = "alias_map_built" => FirstEntryWins(fn_value[1], 1..Len(fn_args))

\* C30 amended: the same over the entries whose canonical name is not blank;
\* an entry with a blank canonical name registers nothing, its variants
\* included.
C30_FirstRegistrationWins ==
  pc = "alias_map_built" =>
    FirstEntryWins(fn_value[1], {k \in 1..Len(fn_args) : ~BlankEntry(k)})

\* two entries that share a key, which goes to the first, while another
\* variant of the second entry resolves to the second canonical name
C30_Witness ==
  /\ pc = "alias_map_built"
  /\ Len(fn_args) = 2 /\ ~BlankEntry(1) /\ ~BlankEntry(2)
  /\ \E key \in KeysOfEntry(1) \cap KeysOfEntry(2) :
       fn_value[1][key] = Strip(fn_args[1].canonical)
  /\ \E key \in KeysOfEntry(2) \ KeysOfEntry(1) :
       /\ key # normalize_query(fn_args[2].canonical)
       /\ fn_value[1][key] = Strip(fn_args[2].canonical)
  /\ Strip(fn_args[1].canonical) # Strip(fn_args[2].canonical)

---------------------------------------------------------------------------
(* Properties of compute_relevance_score                                   *)

\* the keyword or recent entry, normalized and lowered, occurs in the text
Hits(keyword, text) ==
  LET key_norm == Lower(normalize_query(keyword))
  IN key_norm # <<>> /\ IsSubstring(key_norm, Lower(normalize_query(text)))

\* the number of entries of the list that occur in one of the texts
HitCount(keywords, texts) ==
  Cardinality({k \in 1..Len(keywords) : \E t \in texts : Hits(keywords[k], t)})

\* 1 when some entry of the list occurs in the text, else 0
AnyHit(keywords, text) ==
  IF \E k \in 1..Len(keywords) : Hits(keywords[k], text) THEN 1 ELSE 0

\* the normalized avatar name occurs in the title
ExactMatch == Hits(fn_args.avatar_name, fn_args.title)

\* the sum the score is made of
ScoreSum ==
  LET c == fn_args.config
  IN (IF ExactMatch THEN exact_title_match ELSE 0)
     + token_match * HitCount(tokenize_query(fn_args.avatar_name), {fn_args.title})
     + positive_keyword * HitCount(c.positive, {fn_args.title})
     + negative_keyword * HitCount(c.negative, {fn_args.title})
     + unrelated_keyword * HitCount(c.unrelated, {fn_args.title, fn_args.shop_name})
     + recent_click_title * AnyHit(c.recent_titles, fn_args.title)
     + recent_click_shop * AnyHit(c.recent_shops, fn_args.shop_name)

\* the score of the same call with no negative keywords configured
ScoreWithoutNegative ==
  compute_relevance_score(
    fn_args.title, fn_args.shop_name, fn_args.avatar_name, fn_args.config.positive,
    <<>>, fn_args.config.unrelated, DefaultScoreWeights,
    fn_args.config.recent_titles, fn_args.config.recent_shops).score

NegativeHit == HitCount(fn_args.config.negative, {fn_args.title}) > 0

UnrelatedHit ==
  HitCount(fn_args.config.unrelated, {fn_args.title, fn_args.shop_name}) > 0

\* C22: the score is exactly the sum of the weights of what matched, keyword
\* weights once per matching keyword and each recent-click weight at most
\* once; hence an exact match scores at least exact_title_match, and a title
\* that hits a negative keyword scores less than the same match without it.
C22_ScoreSumExactAtLeast ==
  pc = "score_computed" =>
    /\ fn_value.score = ScoreSum
    /\ ExactMatch => fn_value.score >= exact_title_match
    /\ NegativeHit => fn_value.score < ScoreWithoutNegative

\* C22 amended: an exact match scores at least exact_title_match when the
\* title hits no negative keyword and neither title nor shop name hits an
\* unrelated keyword.
C22_ScoreSumExactUnlessPenalty ==
  pc = "score_computed" =>
    /\ fn_value.score = ScoreSum
    /\ (ExactMatch /\ ~NegativeHit /\ ~UnrelatedHit) =>
         fn_value.score >= exact_title_match
    /\ NegativeHit => fn_value.score < ScoreWithoutNegative

\* an exact match of a two-token name with two positive keywords, both
\* recent lists matching twice, and no penalty
C22_Witness ==
  /\ pc = "score_computed"
  /\ ExactMatch /\ ~NegativeHit /\ ~UnrelatedHit
  /\ Len(tokenize_query(fn_args.avatar_name)) = 2
  /\ HitCount(fn_args.config.recent_titles, {fn_args.title}) = 2
  /\ HitCount(fn_args.config.positive, {fn_args.title}) >= 1
  /\ fn_value.score = exact_title_match + 2 * token_match + positive_keyword
                      + recent_click_title

---------------------------------------------------------------------------
(* Properties of _apply_relevance_scoring                                  *)

\* the relevance score line 405 computes for an item (no recent clicks)
RelevanceOf(item, p) ==
  compute_relevance_score(item.name, item.shop_name, p.avatar_name,
                          _relevance_config.positive_keywords,
                          _relevance_config.negative_keywords,
                          _relevance_config.unrelated_keywords,
                          _relevance_config.score, <<>>, <<>>).score

\* out holds the items of inp ordered by non-increasing score, items of
\* equal score in their order in inp
IsStableScoreOrder(out, inp, p) ==
  /\ Len(out) = Len(inp)
  /\ \E f \in [1..Len(inp) -> 1..Len(inp)] :
       /\ \A j, k \in 1..Len(inp) : j # k => f[j] # f[k]
       /\ \A k \in 1..Len(inp) :
            /\ out[k].id = inp[f[k]].id
            /\ out[k].name = inp[f[k]].name
       /\ \A j, k \in 1..Len(inp) :
            j < k => \/ RelevanceOf(out[j], p) > RelevanceOf(out[k], p)
                     \/ /\ RelevanceOf(out[j], p) = RelevanceOf(out[k], p)
                        /\ f[j] < f[k]

\* C21: under the relevance sort the item list of a non-empty parsed result
\* is, after scoring, a permutation of the parsed items in non-increasing
\* score order, equal scores in their original order; under any other sort
\* order the scoring step leaves the item list unchanged.
C21_ScoringOrdersByScore ==
  pc \in {"scoring_returned", "scoring_raised"} =>
    /\ fn_value # <<>>
    /\ IF fn_args.params.sort = "relevance" /\ ~is_empty(fn_args.result)
       THEN IsStableScoreOrder(fn_value[1].items, fn_args.result.items, fn_args.params)
       ELSE fn_value[1].items = fn_args.result.items

---------------------------------------------------------------------------
(* Properties of the detail verification                                   *)

\* C23: detail verification never fails the overall search: with a best
\* result and verify_mode on, search_with_fallback returns a result whatever
\* happens in the verification step, and with the HTML-parsing dependency
\* missing it returns the best result unmodified.
C23_VerificationNeverFails ==
  /\ error = <<>>
  /\ pc # "raised"
  /\ (pc = "done" /\ ~has_bs4) => returned = best_result

\* the position in verify_log of a poll that answered true, 0 if there is none
CancelAt ==
  IF \E k \in 1..Len(verify_log) : verify_log[k].kind = "poll" /\ verify_log[k].answer
  THEN CHOOSE k \in 1..Len(verify_log) :
         verify_log[k].kind = "poll" /\ verify_log[k].answer
  ELSE 0

\* with a cancel_check, every item processed comes right after a poll that
\* answered false
PolledBeforeEachItem ==
  \A k \in 1..Len(verify_log) :
    (cancel_check /\ verify_log[k].kind = "item") =>
      /\ k > 1
      /\ verify_log[k - 1] = PollEvent(FALSE)

\* nothing is fetched or processed after a poll that answered true
NothingAfterCancel == CancelAt # 0 => CancelAt = Len(verify_log)

\* the returned items carry the verdicts of verified_map, and an item whose
\* id has no verdict is the item of the best result
VerdictsApplied ==
  /\ returned # <<>>
  /\ Len(returned[1].items) = Len(best_result[1].items)
  /\ \A k \in 1..Len(best_result[1].items) :
       LET item == best_result[1].items[k]
           out == returned[1].items[k]
       IN IF item.id \in DOMAIN verified_map
          THEN /\ "verified_in_description" \in DOMAIN out
               /\ out.verified_in_description = verified_map[item.id]
               /\ out.id = item.id
          ELSE out = item

\* C24: during detail verification cancel_check is polled before each of the
\* top-N items is processed; once it answers true no further detail page is
\* fetched, and the returned result carries the verdicts of exactly the items
\* processed before the cancellation, all other items as they were.
C24_CancelKeepsVerdictsSoFar ==
  /\ PolledBeforeEachItem
  /\ NothingAfterCancel
  /\ (CancelAt # 0 /\ pc \in {"done", "raised"}) =>
       /\ DOMAIN verified_map =
            {verify_log[k].id : k \in {j \in 1..Len(verify_log) : verify_log[j].kind = "item"}}
       /\ VerdictsApplied

\* the entry found for an item is no older than the TTL at its lookup
LiveEntry(e) == e.entry # <<>> /\ e.now - e.entry[1].timestamp <= _detail_cache_ttl

\* the items of verify_log with a non-empty id
MemoLookups ==
  {k \in 1..Len(verify_log) : verify_log[k].kind = "item" /\ verify_log[k].id # ""}

\* the detail page is fetched exactly when the memo has no live entry
FetchIffNoLiveEntry ==
  \A k \in MemoLookups :
    /\ verify_log[k].fetched <=> ~LiveEntry(verify_log[k])
    /\ LiveEntry(verify_log[k]) => verify_log[k].outcome = "reused"

\* the memo entries of the ids other than id are what they were
OthersKept(id) ==
  /\ (DOMAIN detail_verify_cache') \ {id} = (DOMAIN detail_verify_cache) \ {id}
  /\ \A k \in (DOMAIN detail_verify_cache) \ {id} :
       detail_verify_cache'[k] = detail_verify_cache[k]

\* what one iteration over an item with a non-empty id does to the memo: a
\* live entry is reused as it is, a fetch stores its verdict with the time of
\* the fetch, and an entry that expired is gone when the fetch raises
MemoStep ==
  (pc = "verify_item" /\ Len(verify_log') > Len(verify_log)
   /\ verify_log'[Len(verify_log')].kind = "item"
   /\ verify_log'[Len(verify_log')].id # "") =>
    LET e == verify_log'[Len(verify_log')]
    IN /\ e.entry = (IF e.id \in DOMAIN detail_verify_cache
                     THEN <<detail_verify_cache[e.id]>> ELSE <<>>)
       /\ e.now = clock'
       /\ OthersKept(e.id)
       /\ e.outcome = "reused" =>
            /\ detail_verify_cache' = detail_verify_cache
            /\ verified_map'[e.id] = detail_verify_cache[e.id].verified
       /\ e.outcome = "stored" =>
            /\ e.id \in DOMAIN detail_verify_cache'
            /\ detail_verify_cache'[e.id] = MemoEntry(verified_map'[e.id], clock')
       /\ e.outcome = "raised" => e.id \notin DOMAIN detail_verify_cache'

\* C25: for an item with a non-empty id the detail page is fetched if and
\* only if the memo has no entry for the id or the entry is older than the
\* TTL; an entry no older than the TTL is reused without a fetch, an expired
\* entry is removed, and a fetch stores the new verdict with a fresh
\* timestamp, all other entries untouched.
C25_MemoFetchIffMissOrExpired ==
  /\ []FetchIffNoLiveEntry
  /\ [][MemoStep]_vars

\* one call that reuses an entry exactly TTL old, and replaces an expired
\* entry by the verdict of a fetch
C25_Witness ==
  /\ pc = "verify_apply"
  /\ \E k \in MemoLookups :
       /\ verify_log[k].outcome = "reused"
       /\ verify_log[k].now - verify_log[k].entry[1].timestamp = _detail_cache_ttl
  /\ \E k \in MemoLookups :
       /\ verify_log[k].outcome = "stored"
       /\ verify_log[k].entry # <<>>
       /\ detail_verify_cache[verify_log[k].id].timestamp = verify_log[k].now
       /\ detail_verify_cache[verify_log[k].id].verified # verify_log[k].entry[1].verified

---------------------------------------------------------------------------
(* Properties of search_all_pages                                          *)

\* the avatar name the following pages are searched with: the resolved query
\* of the first page, or the avatar name of the call where the first page
\* carries none
CarriedQuery ==
  IF page_result[1].resolved_query # <<>>
  THEN page_result[1].resolved_query ELSE params.avatar_name

\* search_with_fallback once with the given params, then search() for the
\* consecutive page numbers with the carried query
CallsInOrder ==
  \A k \in 1..Len(page_calls) :
    IF k = 1
    THEN page_calls[k].fn = "search_with_fallback" /\ page_calls[k].params = params
    ELSE /\ page_calls[k].fn = "search"
         /\ page_calls[k].params.page = params.page + k - 1
         /\ page_calls[k].params.avatar_name = CarriedQuery

\* no search follows one that returned no item or raised
StopsAtFirstEmpty ==
  /\ \A k \in 1..(Len(page_calls) - 1) : page_calls[k].outcome = "items"
  /\ pc = "next_page" => page_calls[Len(page_calls)].outcome = "items"

\* the call is over: it returned, or the exception of a search left it
PagesOver == pc \in {"done", "raised"}

\* the number of pages asked for against min(max_pages, total_pages)
WithinMinOfBoth ==
  page_result # <<>> =>
    Len(page_calls) <= Min(max_pages, page_result[1].total_pages)

\* C26 as stated: search_all_pages runs search_with_fallback once, then
\* search() for consecutive pages with the resolved query of the first page,
\* never asks for more pages in total than min(max_pages, total_pages), stops
\* at the first empty page and always terminates.
C26_PagesWithinMinAlways ==
  [](CallsInOrder /\ StopsAtFirstEmpty /\ WithinMinOfBoth) /\ <>PagesOver

\* at most max(1, max_pages) pages are asked for
WithinMaxPages ==
  Len(page_calls) <= IF max_pages < 1 THEN 1 ELSE max_pages

\* a following page is asked for only while its number is inside both limits
\* of line 581, read on the result merged so far
FollowingPageInsideLimits ==
  Len(page_calls') > Len(page_calls) /\ Len(page_calls) > 0 =>
    /\ params.page + Len(page_calls) <= params.page + max_pages - 1
    /\ params.page + Len(page_calls) <= page_result[1].total_pages

\* C26: search_all_pages always asks for the first page, by
\* search_with_fallback; then search() for consecutive pages with the carried
\* query, a page only while its number is at most
\* min(params.page + max_pages - 1, total_pages of the result merged so far),
\* so at most max(1, max_pages) pages in total; no search follows an empty
\* page; the call always ends, by a return or by the exception of a search.
C26_PagesWithinLimits ==
  /\ [](CallsInOrder /\ StopsAtFirstEmpty /\ WithinMaxPages)
  /\ [][FollowingPageInsideLimits]_vars
  /\ <>PagesOver

\* three pages were asked for with a resolved query other than the avatar
\* name, and the third, empty, ended the call
C26_Witness ==
  /\ pc = "done" /\ Len(page_calls) = 3
  /\ page_calls[3].outcome = "empty"
  /\ page_calls[3].params.avatar_name = <<"b">>
  /\ returned = page_result /\ Len(returned[1].items) > 0

---------------------------------------------------------------------------
(* Properties of cache_key: injectivity                                    *)

\* the five fields the key is made of
KeyFields(p) == <<p.avatar_name, p.category, p.sort, p.price_range, p.page>>

\* C35: two SearchParams that differ in avatar name, category, sort order,
\* price range or page never produce the same key string, hence never the
\* same cache key.
C35_KeyStringInjective ==
  pc = "keyed" /\ KeyFields(params) # KeyFields(params2) =>
    /\ key_string(params) # key_string(params2)
    /\ keys[1] # keys[2]

---------------------------------------------------------------------------
(* Properties of sort_by_price                                             *)

\* no item without a price stands before an item with one
UnknownPricesLast(items) ==
  \A i, j \in 1..Len(items) :
    items[i].price_value = <<>> /\ items[j].price_value # <<>> => j < i

\* the items with a price follow each other by price in the asked direction
KnownPricesOrdered(items, ascending) ==
  \A i, j \in 1..Len(items) :
    i < j /\ items[i].price_value # <<>> /\ items[j].price_value # <<>> =>
      IF ascending THEN items[i].price_value[1] <= items[j].price_value[1]
      ELSE items[i].price_value[1] >= items[j].price_value[1]

\* C37: sort_by_price places every item without a price after all items with
\* a price, ascending and descending, and orders the items with a price by
\* price in the requested direction.
C37_UnknownPricesAfterKnown ==
  pc = "sorted_by_price" =>
    /\ UnknownPricesLast(fn_value[1].items)
    /\ KnownPricesOrdered(fn_value[1].items, fn_args.ascending)

---------------------------------------------------------------------------
(* Properties of search_with_fallback: the alias option                    *)

\* C34: when params.alias_enabled is false, no label-C attempt (the alias
\* canonical name) is planned, and none is searched.
C34_NoAliasAttemptWhenOff ==
  ~params.alias_enabled =>
    /\ \A k \in 1..Len(attempts) : attempts[k].label # "C"
    /\ \A k \in 1..Len(calls) :
         pc # "direct" /\ attempts # <<>> => calls[k].avatar_name # AliasGet(normalize_query(raw_query))

---------------------------------------------------------------------------
(* Properties of search_with_fallback: the non-empty result                *)

\* the score of the page a search handed back
CallScore(c) == IF c.total_count > 0 THEN c.total_count ELSE c.n_items

\* the page a search handed back ends the loop: it has items and enough of them
CallSatisfies(c) == c.n_items > 0 /\ CallScore(c) >= min_results

\* the call went through the fallback loop and returned
LoopReturned ==
  pc = "done" /\ ResolutionApplies(params) /\ attempts # <<>> /\ returned # <<>>

\* C32: search_with_fallback returns a non-empty result whenever an attempt
\* it searched produced a non-empty result; when the loop stops at a
\* satisfying attempt, the returned result is that attempt's result.
C32_NonEmptyWhenAnyAttemptNonEmpty ==
  LoopReturned =>
    /\ (\E k \in 1..Len(calls) : calls[k].n_items > 0) => ~is_empty(returned[1])
    /\ Len(calls) > 0 /\ CallSatisfies(calls[Len(calls)]) =>
         /\ returned[1].resolved_query = attempts[Len(calls)].query
         /\ Len(returned[1].items) = calls[Len(calls)].n_items

---------------------------------------------------------------------------
(* Properties of the result cache over time                                *)

\* the puts before call i that stored their result
StoredPutsBefore(i) ==
  {j \in 1..(i - 1) : effects[j].op = "put" /\ effects[j].fault = "none"}

\* the put that created the entry call i finds: the last one that stored
HasEntry(i) == StoredPutsBefore(i) # {}

CreatingPut(i) ==
  effects[CHOOSE j \in StoredPutsBefore(i) : \A k \in StoredPutsBefore(i) : k <= j]

\* the age, at call i, of the entry it finds
EntryAge(i) == effects[i].at - CreatingPut(i).at

Gets == {i \in 1..Len(effects) : effects[i].op = "get"}

\* get never returns an entry older than ttl_seconds, however often the
\* entry was read before, and what it returns is the result of the put that
\* created the entry, flagged as cached, with its age
NeverOlderThanTtl ==
  \A i \in Gets :
    effects[i].value # <<>> =>
      /\ HasEntry(i) /\ EntryAge(i) <= TtlSeconds
      /\ effects[i].value[1].items = CreatingPut(i).result[1].items
      /\ effects[i].value[1].total_count = CreatingPut(i).result[1].total_count
      /\ effects[i].value[1].cached
      /\ effects[i].value[1].cache_age_seconds = <<EntryAge(i)>>

\* a get whose storage works hits exactly the entries within the TTL
HitWithinTtl ==
  \A i \in Gets :
    effects[i].fault = "none" =>
      (effects[i].value # <<>> <=> (HasEntry(i) /\ EntryAge(i) <= TtlSeconds))

\* a get whose storage works reports a miss on an expired entry and leaves
\* no row of it
ExpiredIsDeleted ==
  effects # <<>> =>
    LET i == Len(effects)
    IN effects[i].op = "get" /\ effects[i].fault = "none" /\ HasEntry(i)
       /\ EntryAge(i) > TtlSeconds
         => /\ effects[i].value = <<>> /\ ~effects[i].raised
            /\ result_cache = {}

\* C36: ResultCache.get never returns an entry older than ttl_seconds counted
\* from the put that created it: reads do not extend the lifetime; a get on
\* an expired entry deletes it and reports a miss; a get within the TTL after
\* a put returns the stored result flagged cached=true (a get and a put being
\* calls whose storage works: a failed put stores nothing, a failed get
\* returns nothing).
C36_GetWithinTtlOnly ==
  NeverOlderThanTtl /\ HitWithinTtl /\ ExpiredIsDeleted

\* an entry was read within its TTL, and read again after the TTL counted
\* from the put, which was a miss that deleted it
C36_Witness ==
  /\ Len(effects) = 3 /\ result_cache = {}
  /\ effects[1].op = "put" /\ effects[1].fault = "none"
  /\ effects[2].op = "get" /\ effects[2].value # <<>> /\ effects[2].at > effects[1].at
  /\ effects[3].op = "get" /\ effects[3].fault = "none" /\ effects[3].value = <<>>
  /\ effects[3].at - effects[2].at <= TtlSeconds

---------------------------------------------------------------------------
(* Properties of _verify_top_items: whose verdict is applied               *)

\* the description of the item names the avatar of this call
NamesAvatar(item_id) ==
  _check_avatar_in_description(get_item_page(item_id), params.avatar_name)

---------------------------------------------------------------------------
(* ImageCache: the size of the memory cache and the order of eviction      *)

\* the bytes held by the entries of a memory cache
RECURSIVE MemoryBytes(_)
MemoryBytes(cache) ==
  IF cache = <<>> THEN 0 ELSE Len(Head(cache).data) + MemoryBytes(Tail(cache))

\* the entries held in memory take at most memory_max_size bytes
MemoryWithinMaxSize == MemoryBytes(memory_cache) <= memory_max_size

\* what a get or a put evicted are the entries used longest ago, the
\* oldest first
EvictedLeastRecentlyUsed ==
  (lru_log # <<>> /\ lru_log[1].op \in {"put", "get"}) =>
    /\ Len(lru_log[1].evicted) <= Len(lru_log[1].others)
    /\ lru_log[1].evicted = SubSeq(lru_log[1].others, 1, Len(lru_log[1].evicted))

\* C40: after any sequence of put, get, remove, clear and clear_memory the
\* entries of the memory cache take at most memory_max_size bytes, and what
\* was evicted was least recently used, a get or put being a use
C40_MemoryBoundedAndLru == MemoryWithinMaxSize /\ EvictedLeastRecentlyUsed

\* a put or get that evicted two entries
EvictedTwo ==
  lru_log # <<>> /\ lru_log[1].op \in {"put", "get"} /\ Len(lru_log[1].evicted) = 2

---------------------------------------------------------------------------
(* ImageLoaderPool: one download per url                                   *)

\* the tasks for url that are queued or running
Downloading(url) ==
  {i \in DOMAIN executor :
     executor[i].url = url /\ executor[i].state \in {"PENDING", "RUNNING"}}

\* C39: under any interleaving of request_image, cancel_request, cancel_all
\* and download completions at most one download task of a url is queued
\* or running
C39_OneDownloadPerUrl == \A url \in PoolUrls : Cardinality(Downloading(url)) <= 1

---------------------------------------------------------------------------
(* SearchWorker: one terminal signal per run, one run at a time            *)

TerminalSignals == {"result_ready", "error", "cancelled"}

\* the terminal signals of run n
TerminalsOf(n) ==
  {i \in DOMAIN signals : signals[i].run = n /\ signals[i].sig \in TerminalSignals}

\* a run that is over has emitted one terminal signal, the run in flight at
\* most one
OneTerminalPerRun ==
  \A n \in 1..RunsStarted :
    /\ Cardinality(TerminalsOf(n)) <= 1
    /\ (n < RunsStarted \/ ~is_running) => Cardinality(TerminalsOf(n)) = 1

\* a run starts only after the terminal signal of the run before it
OneRunInFlight ==
  \A i \in DOMAIN signals :
    (signals[i].sig = "start" /\ i > 1) =>
      /\ signals[i - 1].sig \in TerminalSignals
      /\ signals[i - 1].run = signals[i].run - 1

\* search() has requested cancellation while it waits, and resets the flag
\* and starts the thread only when no run is active
WaitsBeforeRestart ==
  /\ gui_pc.at = "wait" => cancel_requested
  /\ gui_pc.at \in {"set", "reset", "start"} => ~is_running

\* C38: every run emits exactly one terminal signal among result_ready,
\* error and cancelled, at most one run is in flight, and search() called
\* during a run requests cancellation and waits for the run to finish
\* before it resets the cancel flag and starts the new run
C38_OneTerminalSignalOneRun ==
  OneTerminalPerRun /\ OneRunInFlight /\ WaitsBeforeRestart

\* search() was called during a run, which ended cancelled, and the run it
\* started has delivered its result
C38_Witness ==
  \E i \in DOMAIN signals :
    /\ i + 2 <= Len(signals)
    /\ signals[i].sig = "cancelled"
    /\ signals[i + 1].sig = "start"
    /\ signals[i + 2].sig = "result_ready"
    /\ ~is_running

---------------------------------------------------------------------------
(* A returned SearchResult is not altered by later calls                   *)

\* C31: a SearchResult that was returned has, after any later search,
\* search_with_fallback and search_all_pages calls on the same service, the
\* item list and the item fields it had when it was returned
C31_ReturnedResultsUnaltered ==
  \A i \in DOMAIN handed : heap[handed[i].ref].items = handed[i].items

\* a search() result with items was returned to search_with_fallback, which
\* set its attempt fields in place, and later calls created and returned
\* other results
C31_Witness ==
  \E i \in DOMAIN handed :
    /\ handed[i].items # <<>>
    /\ heap[handed[i].ref].attempt_label = "B"
    /\ \E j \in DOMAIN handed : j > i + 1 /\ handed[j].ref > handed[i].ref
    /\ Len(heap) = MaxObjects

====
